---- MODULE Spec2Model ----
(***************************************************************************)
(* A model of the execution and streaming substrate of the XTeam backend:  *)
(* the Redis-backed job queue (task_queue.py), the event bus               *)
(* (streaming.py), the token authority (security.py, token_blacklist.py,   *)
(* deps.py, auth.py), the token-bucket rate limiter (rate_limit.py), the   *)
(* connection registry (connection_manager.py), the execution record       *)
(* (execution.py, agent_manager.py, message_handler.py), the agent         *)
(* configurations (agent_service.py), the workflow driver (projects.py,    *)
(* agent_manager.py), the workspace files (file_handler.py), the message   *)
(* router (message_handler.py, api/v1/websocket.py) and the life of the    *)
(* application (main.py).                                                  *)
(*                                                                         *)
(* Every component is a state machine of its own over its own variables;   *)
(* each has its own next-state relation and specification (SpecQueue,      *)
(* SpecBackoff, SpecBus, SpecAuth, SpecRate, SpecRegistry, SpecExec,       *)
(* SpecAgentConfig, SpecWorkflow, SpecFiles, SpecSession, SpecLifecycle).  *)
(* Scenarios of a component have specifications of their own over the      *)
(* same variables (SpecQueueCancel, SpecQueueOrder, SpecQueueSingle,       *)
(* SpecQueueCrash, SpecBusFaulty, SpecBusProject, SpecBusTimed,            *)
(* SpecBlacklist, SpecRateSweep, SpecDriver).                              *)
(* A coroutine is cut into one action per stretch of code between two      *)
(* awaits, because the event loop can switch tasks exactly there.          *)
(***************************************************************************)
EXTENDS Integers, Sequences, FiniteSets, TLC

\* ---------------------------------------------------------------------------
\* Bounds of the model
\* ---------------------------------------------------------------------------
\* Number of access tokens issued
MaxTokens == 1
\* Last instant of the clock of the token authority
MaxClock == 2
\* settings.access_token_expire_minutes, in clock ticks
AccessTokenTTL == 1
\* settings.refresh_token_expire_days, in clock ticks
RefreshTokenTTL == 2
\* RateLimitMiddleware.requests_per_minute, a constructor argument: the
\* capacity of every bucket
RequestsPerMinute == 3
\* Number of clock instants of the rate limiter per minute
WindowTicks == 3
\* Number of connection ids handed out
MaxConns == 2
\* Number of execution records
MaxExecutions == 1
\* Execution.max_retries of the records of the model
MaxRetries == 1
\* Last instant of the clock of the execution records
MaxExecClock == 3
\* Number of AgentConfig rows
MaxConfigs == 2
\* Number of execute requests
MaxRequests == 2
\* Number of emit calls
MaxEvents == 2
\* StreamingHandler.buffer_size, a constructor argument
BufferSize == 2
MaxJobs == 1
BatchSize == 2
MaxDispatch == 2
\* Largest max_retries of the job of the backoff scenario
MaxBackoffRetries == 7
\* Longest file_path handed to an operation on workspace files
MaxPathLen == 7
\* Number of frames a session receives
MaxFrames == 4
\* Number of sessions open when the application shuts down
MaxSessions == 3
\* Most events in the buffer of the streaming handler at shutdown
MaxBuffered == 3
\* Number of workflows whose statements are followed
MaxRuns == 2
\* StreamingHandler.batch_timeout_ms, in ticks
BatchTimeout == 2
\* StreamingHandler.buffer_size where the time of the flush is looked at
TimedBufferSize == 4
\* Last instant of the clock of the processor task
MaxTime == 8

\* ---------------------------------------------------------------------------
\* Generic helpers
\* ---------------------------------------------------------------------------
Min2(a, b) == IF a <= b THEN a ELSE b

RECURSIVE Pow2(_)
Pow2(n) == IF n = 0 THEN 1 ELSE 2 * Pow2(n - 1)

RECURSIVE CountSeq(_, _)
CountSeq(s, x) ==
    IF s = <<>> THEN 0
    ELSE (IF Head(s) = x THEN 1 ELSE 0) + CountSeq(Tail(s), x)

\* ===========================================================================
\* JOB QUEUE  (backend/app/metagpt_integration/task_queue.py)
\* ===========================================================================
VARIABLES
    jobs,           \* redis keys job:{id} -> serialized Job
    queue,          \* redis sorted set task_queue: member id -> score
    processing,     \* redis set task_queue:processing
    dlq,            \* redis list task_queue:dlq (index 1 is the list head)
    wpc,            \* per worker: position in worker_loop / process_job
    wbatch,         \* per worker: the ids of job_ids not yet iterated
    wjob,           \* per worker: the Job object held by process_job
    woutcome,       \* per worker: how the last handler call ended
    wpre,           \* per worker: retry_count when the handler was called
    wzadd,          \* per worker: the score process_job re-added the id with
    wpushed,        \* per worker: entries process_job pushed on the dlq
    requeueCount,   \* history: times each id was re-added after a backoff
    dispatchCount,  \* history: times each id was handed to a handler
    origPriority,   \* history: the priority each id was enqueued with
    cancelled,      \* history: ids for which cancel_job returned True
    cpc,            \* cancel_job: position of the one caller modelled
    cjid,           \* cancel_job: its job_id
    cjob            \* cancel_job: the Job object it loaded

qvars == <<jobs, queue, processing, dlq, wpc, wbatch, wjob, woutcome, wpre,
           wzadd, wpushed,
           requeueCount, dispatchCount, origPriority, cancelled, cpc, cjid,
           cjob>>

\* --- event bus (streaming.py, StreamingHandler) ---
VARIABLES
    running,        \* StreamingHandler._running
    subscribers,    \* subscriber id -> its EventFilter, NoFilter when absent
    events,         \* every emit call so far, in call order; an event's id
                    \* is its index here
    event_queue,    \* StreamingHandler.event_queue (ids)
    event_buffer,   \* StreamingHandler.event_buffer (ids)
    lock,           \* StreamingHandler._lock: "free" or held across an await
    ppc,            \* position of the _process_events task
    inhand,         \* the event the processor took and has not yet appended
    spc,            \* position of a stop() call
    delivered,      \* subscriber id -> the callback invocations, in order
    batchNo,        \* number of flushes that delivered a batch
    dueTo,          \* event id -> subscribers registered with a matching
                    \* filter at emit and not unsubscribed or replaced since
    flushedEv       \* ids of the events a flush has taken out of the buffer

bvars == <<running, subscribers, events, event_queue, event_buffer, lock, ppc,
           inhand, spc, delivered, batchNo, dueTo, flushedEv>>

\* --- token authority (security.py, token_blacklist.py, deps.py, auth.py) ---
VARIABLES
    clock,          \* datetime.now(timezone.utc), in ticks
    tokens,         \* the access tokens issued: sub and exp; a token's id is
                    \* its index here
    blacklist,      \* the keys of the Redis blacklist -> instant they expire
    redisUp,        \* the blacklist store is connected and answers
    userActive,     \* User.is_active
    resp,           \* the answer to the latest request: endpoint, status
                    \* code, and whether the token it carried was then a
                    \* revoked one with the blacklist store reachable
    revoked         \* ids of the tokens revoked before their expiry

avars == <<clock, tokens, blacklist, redisUp, userActive, resp, revoked>>

\* --- rate limiter (rate_limit.py) ---
VARIABLES
    buckets,        \* RateLimitMiddleware.buckets: client ip -> TokenBucket,
                    \* with tokens in sixtieths of a token and, for
                    \* last_refill, the seconds elapsed since it
    sinceCleanup,   \* seconds elapsed since RateLimitMiddleware.last_cleanup
    admits,         \* client ip -> requests admitted at each of the latest
                    \* WindowTicks + 1 instants, the current one last
    lastStatus      \* status of the latest answer of the middleware

rvars == <<buckets, sinceCleanup, admits, lastStatus>>

\* --- connection registry (connection_manager.py) ---
VARIABLES
    connections,          \* ConnectionManager.connections: id -> ConnectionInfo
    user_connections,     \* ConnectionManager.user_connections
    project_connections,  \* ConnectionManager.project_connections
    connecting,           \* connect calls awaiting websocket.accept():
                          \* id -> the arguments of the call
    tpc,                  \* per task that disconnects or sends: its position
    tid,                  \* per task: the connection id it was called with
    tinfo,                \* per task: the conn_info it read before its await
    usedIds,              \* the connection ids handed out so far
    gone,                 \* ids whose latest finished call is a disconnect
    tcall,                \* per task: the call of the registry it is in and,
                          \* for a fan-out, the ids of its copy still to visit
    failed                \* <<id, fanout>>: a send to id raised, inside a
                          \* fan-out or not, and send_to_connection has
                          \* ended since

cvars == <<connections, user_connections, project_connections, connecting,
           tpc, tid, tinfo, usedIds, gone, tcall, failed>>

\* --- execution records (execution.py, agent_manager.py, message_handler.py)
VARIABLES
    executions,     \* the Execution rows: status, started_at, completed_at,
                    \* duration_seconds, retry_count, max_retries
    enow            \* datetime.now(timezone.utc) of the execution records

evars == <<executions, enow>>

\* --- agent configurations (services/agent_service.py, models/agent_config.py)
VARIABLES
    agent_configs,  \* the committed AgentConfig rows, by id: user_id,
                    \* agent_role, is_default
    sess            \* per request: the operation in flight, its position
                    \* and the rows its database session has loaded

gvars == <<agent_configs, sess>>

\* --- workflow driver (api/v1/projects.py, agent_manager.py)
VARIABLES
    wreq            \* per execute request: its arguments, the response and
                    \* what its workflow run has done: the events emitted,
                    \* the stages run, Project.progress, the agent_logs

wvars == <<wreq>>

\* --- retry backoff of the job queue (task_queue.py process_job)
VARIABLES
    kjob,           \* the Job object of one job that is processed again and
                    \* again
    kslept          \* the backoff sleeps of process_job for that job, in
                    \* order: retry_count at the sleep and the seconds slept

kvars == <<kjob, kslept>>

\* --- workspace files (file_handler.py, message_handler.py _handle_get_file)
VARIABLES
    fop             \* the last operation on the files of the workspace of
                    \* one project: its name, the file_path it was given,
                    \* how it ended and the paths it handed to the
                    \* operating system

fvars == <<fop>>


\* --- one session of the websocket endpoint (api/v1/websocket.py,
\*     message_handler.py)
VARIABLES
    sloop,          \* where websocket_endpoint is: in its receive loop or
                    \* returned
    sregistered,    \* the connection of the session is in
                    \* conn_manager.connections
    slast,          \* the reply sent for the last frame received
    sfailed,        \* the kinds of frame of this session that the router
                    \* has answered with success False
    sframes         \* number of frames received

svars == <<sloop, sregistered, slast, sfailed, sframes>>


\* --- life of the application (main.py lifespan)
VARIABLES
    lphase,         \* where the application is: serving, or how far the
                    \* shutdown has come
    lconns,         \* the connection ids in connection_manager.connections
    lbus,           \* the global streaming handler: created or not, running
                    \* or not, and the number of events in its buffer
    lqueue,         \* the global task queue: created or not, its redis
                    \* connection open or not
    lsteps          \* the steps of the shutdown that have run, in order

lvars == <<lphase, lconns, lbus, lqueue, lsteps>>


\* --- the statements of run_workflow (agent_manager.py) and a cancel message
VARIABLES
    drun            \* per workflow: where run_workflow is, the status column
                    \* of its execution row, the stages it has started and
                    \* how many of them had started when a cancel_execution
                    \* message was committed

dvars == <<drun>>


\* --- the timing of the processor task of the event bus (streaming.py
\*     _process_events)
VARIABLES
    tnow,           \* the time, in ticks
    twait,          \* the time at which the wait_for of the processor task
                    \* that is under way began
    tbuffer,        \* event_buffer: for each event the time it was emitted
    tworst          \* the longest an event has been in the buffer when its
                    \* flush began, so far

tvars == <<tnow, twait, tbuffer, tworst>>


\* What the actions of the job queue leave alone
nonQueue ==
    <<bvars, avars, rvars, cvars, evars, gvars, wvars, kvars, fvars, svars,
      lvars, dvars, tvars>>

JobIds == 1..MaxJobs

\* The ids enqueue_job hands out where the order of dispatch is looked at:
\* a batch of two and one job that arrives later
OrderJobIds == 1..(MaxJobs + 2)

\* Two worker_loop tasks run against the one store
Workers == {1, 2}

\* class JobPriority
LOW == 1
NORMAL == 5
HIGH == 10
CRITICAL == 20
JobPriority == {LOW, NORMAL, HIGH, CRITICAL}


\* class JobStatus
JobStatus == {"pending", "running", "completed", "failed", "cancelled",
              "timeout", "retrying"}

\* TaskQueue.job_handlers: the job types a handler is registered for, and the
\* job types producers enqueue.
RegisteredTypes == {"workflow"}
JobTypes == {"workflow", "unregistered"}

\* The enqueue_job calls producers of the model make:
\* <<job_type, priority, max_retries>>
EnqueueCalls == {<<"workflow", NORMAL, 0>>, <<"workflow", HIGH, 1>>,
                 <<"unregistered", LOW, 0>>}

\* How a handler call can end: it returns, it raises, or wait_for cuts it off
\* after timeout_seconds.
Outcomes == {"ok", "raise", "timeout"}

NoJob == [status |-> "none"]

\* Job.__init__
NewJob(job_type, priority, max_retries) ==
    [job_type |-> job_type, status |-> "pending", priority |-> priority,
     started_at |-> FALSE, completed_at |-> FALSE, result |-> "none",
     error |-> "none", retry_count |-> 0, max_retries |-> max_retries]

\* Job.mark_running
mark_running(job) == [job EXCEPT !.status = "running", !.started_at = TRUE]

\* Job.mark_completed
mark_completed(job, result) ==
    [job EXCEPT !.status = "completed", !.completed_at = TRUE,
                !.result = result]

\* Job.mark_failed
mark_failed(job, error) ==
    [job EXCEPT !.status = "failed", !.completed_at = TRUE, !.error = error]

\* Job.mark_cancelled
mark_cancelled(job) ==
    [job EXCEPT !.status = "cancelled", !.completed_at = TRUE]

\* Job.mark_timeout
mark_timeout(job) ==
    [job EXCEPT !.status = "timeout", !.completed_at = TRUE,
                !.error = "timed_out"]

\* Job.can_retry
can_retry(job) == job.retry_count < job.max_retries

\* increment_retry that forgets the count
increment_retry_same_count(job) ==
    [job EXCEPT !.status = "retrying", !.error = "none"]

\* Job.increment_retry
increment_retry(job) ==
    [job EXCEPT !.retry_count = job.retry_count + 1, !.status = "retrying",
                !.error = "none"]

\* The score a job id is stored with in the sorted set: -priority.value
QueueScore(priority) == 0 - priority

\* redis ZADD key {member: score}
zadd(zset, member, score) ==
    [m \in DOMAIN zset \cup {member} |->
        IF m = member THEN score ELSE zset[m]]

\* redis ZREM key member
zrem(zset, member) == [m \in DOMAIN zset \ {member} |-> zset[m]]

\* The members of a sorted set in redis order: ascending score, ties by member
RECURSIVE zall(_)
zall(zset) ==
    IF DOMAIN zset = {} THEN <<>>
    ELSE LET first == CHOOSE a \in DOMAIN zset :
                        \A b \in DOMAIN zset :
                            \/ zset[a] < zset[b]
                            \/ (zset[a] = zset[b] /\ a <= b)
         IN  <<first>> \o zall(zrem(zset, first))

\* redis ZRANGE key start stop (0-based, inclusive)
zrange(zset, start, stop) ==
    SubSeq(zall(zset), start + 1, Min2(stop + 1, Len(zall(zset))))

\* The retry branch of process_job without the cap
backoff_uncapped(job) == Pow2(job.retry_count) * 60

\* The retry branch of process_job: min(2 ** retry_count * 60, 3600)
BackoffSeconds(job) == Min2(Pow2(job.retry_count) * 60, 3600)

\* TaskQueue._handle_dead_letter: the entry pushed on the list
DlqEntry(jid, job) ==
    [job_id |-> jid, job_type |-> job.job_type, error |-> job.error,
     failed_at |-> "utcnow", retry_count |-> job.retry_count]

\* _handle_dead_letter that pushes its entry twice
handle_dead_letter_twice(list, jid, job) ==
    <<DlqEntry(jid, job), DlqEntry(jid, job)>> \o list

\* TaskQueue._handle_dead_letter: LPUSH of the entry
handle_dead_letter(list, jid, job) == <<DlqEntry(jid, job)>> \o list

\* What the except/else branches of _process_job make of the Job object
\* once the handler call has ended
AfterHandler(job, outcome) ==
    CASE outcome = "ok" -> mark_completed(job, "result")
      [] outcome = "timeout" -> mark_timeout(job)
      [] outcome = "raise" ->
            IF can_retry(job) THEN increment_retry(job)
            ELSE mark_failed(job, "exception")

\* process_job after _process_job returned: the branch taken on job.status
AfterProcess(job) ==
    IF job.status = "retrying" THEN "backoff"
    ELSE IF job.status = "failed" THEN "dlq"
    ELSE "srem"

QInit ==
    /\ jobs = [j \in {} |-> NoJob]
    /\ queue = [j \in {} |-> 0]
    /\ processing = {}
    /\ dlq = <<>>
    /\ wpc = [w \in Workers |-> "fetch"]
    /\ wbatch = [w \in Workers |-> <<>>]
    /\ wjob = [w \in Workers |-> NoJob]
    /\ woutcome = [w \in Workers |-> "none"]
    /\ wpre = [w \in Workers |-> 0]
    /\ wzadd = [w \in Workers |-> 0]
    /\ wpushed = [w \in Workers |-> 0]
    /\ requeueCount = [j \in OrderJobIds |-> 0]
    /\ dispatchCount = [j \in OrderJobIds |-> 0]
    /\ origPriority = [j \in OrderJobIds |-> 0]
    /\ cancelled = {}
    /\ cpc = "idle"
    /\ cjid = 0
    /\ cjob = NoJob

\* The id a worker is busy with: the head of what is left of its batch
Cur(w) == Head(wbatch[w])

\* TaskQueue.enqueue_job: a fresh id; SET job:{id}, then ZADD with -priority
EnqueueJob(j, job_type, priority, max_retries) ==
    /\ j \notin DOMAIN jobs
    /\ jobs' = [i \in DOMAIN jobs \cup {j} |->
                  IF i = j THEN NewJob(job_type, priority, max_retries)
                  ELSE jobs[i]]
    /\ queue' = zadd(queue, j, QueueScore(priority))
    /\ origPriority' = [origPriority EXCEPT ![j] = priority]
    /\ UNCHANGED nonQueue
    /\ UNCHANGED <<processing, dlq, wpc, wbatch, wjob, woutcome, wpre,
                   requeueCount, dispatchCount, cancelled, cpc, cjid, cjob,
                   wzadd, wpushed>>

\* worker_loop: ZRANGE task_queue 0 batch_size-1.  An empty answer sleeps one
\* second and asks again, which leaves the state as it is.
WorkerFetch(w) ==
    /\ wpc[w] = "fetch"
    /\ zrange(queue, 0, BatchSize - 1) # <<>>
    /\ wbatch' = [wbatch EXCEPT ![w] = zrange(queue, 0, BatchSize - 1)]
    /\ wpc' = [wpc EXCEPT ![w] = "zrem"]
    /\ UNCHANGED nonQueue
    /\ UNCHANGED <<jobs, queue, processing, dlq, wjob, woutcome, wpre,
                   requeueCount, dispatchCount, origPriority, cancelled, cpc,
                   cjid, cjob, wzadd, wpushed>>

\* worker_loop: ZREM task_queue job_id; the reply is not looked at
WorkerZrem(w) ==
    /\ wpc[w] = "zrem"
    /\ queue' = zrem(queue, Cur(w))
    /\ wpc' = [wpc EXCEPT ![w] = "sadd"]
    /\ UNCHANGED nonQueue
    /\ UNCHANGED <<jobs, processing, dlq, wbatch, wjob, woutcome, wpre,
                   requeueCount, dispatchCount, origPriority, cancelled, cpc,
                   cjid, cjob, wzadd, wpushed>>

\* worker_loop: SADD task_queue:processing job_id
WorkerSadd(w) ==
    /\ wpc[w] = "sadd"
    /\ processing' = processing \cup {Cur(w)}
    /\ wpc' = [wpc EXCEPT ![w] = "get"]
    /\ UNCHANGED nonQueue
    /\ UNCHANGED <<jobs, queue, dlq, wbatch, wjob, woutcome, wpre,
                   requeueCount, dispatchCount, origPriority, cancelled, cpc,
                   cjid, cjob, wzadd, wpushed>>

\* process_job: get_job(job_id); a missing record ends process_job
WorkerGet(w) ==
    /\ wpc[w] = "get"
    /\ IF Cur(w) \in DOMAIN jobs
       THEN /\ wjob' = [wjob EXCEPT ![w] = jobs[Cur(w)]]
            /\ wpc' = [wpc EXCEPT ![w] = "start"]
       ELSE /\ wjob' = [wjob EXCEPT ![w] = NoJob]
            /\ wpc' = [wpc EXCEPT ![w] = "srem"]
    /\ UNCHANGED nonQueue
    /\ UNCHANGED <<jobs, queue, processing, dlq, wbatch, woutcome, wpre,
                   requeueCount, dispatchCount, origPriority, cancelled, cpc,
                   cjid, cjob, wzadd, wpushed>>

\* _process_job up to its first await: without a handler the job is marked
\* failed and saved, otherwise it is marked running and saved
WorkerStart(w) ==
    /\ wpc[w] = "start"
    /\ IF wjob[w].job_type \notin RegisteredTypes
       THEN /\ wjob' = [wjob EXCEPT ![w] = mark_failed(@, "no_handler")]
            /\ wpc' = [wpc EXCEPT ![w] = AfterProcess(wjob'[w])]
       ELSE /\ wjob' = [wjob EXCEPT ![w] = mark_running(@)]
            /\ wpc' = [wpc EXCEPT ![w] = "handler"]
    /\ jobs' = [jobs EXCEPT ![Cur(w)] = wjob'[w]]
    /\ UNCHANGED nonQueue
    /\ UNCHANGED <<queue, processing, dlq, wbatch, woutcome, wpre,
                   requeueCount, dispatchCount, origPriority, cancelled, cpc,
                   cjid, cjob, wzadd, wpushed>>

\* _process_job: await wait_for(handler(job.payload), timeout_seconds) and the
\* branch that follows the way the call ended.  The model follows each id
\* through at most MaxDispatch handler calls.
WorkerHandler(w, outcome) ==
    /\ wpc[w] = "handler"
    /\ dispatchCount[Cur(w)] < MaxDispatch
    /\ wjob' = [wjob EXCEPT ![w] = AfterHandler(@, outcome)]
    /\ woutcome' = [woutcome EXCEPT ![w] = outcome]
    /\ wpre' = [wpre EXCEPT ![w] = wjob[w].retry_count]
    /\ dispatchCount' = [dispatchCount EXCEPT ![Cur(w)] = @ + 1]
    /\ wpc' = [wpc EXCEPT ![w] = "save"]
    /\ UNCHANGED nonQueue
    /\ UNCHANGED <<jobs, queue, processing, dlq, wbatch, requeueCount,
                   origPriority, cancelled, cpc, cjid, cjob, wzadd, wpushed>>

\* _process_job: the finally clause saves the job; process_job then branches
\* on job.status
WorkerSave(w) ==
    /\ wpc[w] = "save"
    /\ jobs' = [jobs EXCEPT ![Cur(w)] = wjob[w]]
    /\ wpc' = [wpc EXCEPT ![w] = AfterProcess(wjob[w])]
    /\ UNCHANGED nonQueue
    /\ UNCHANGED <<queue, processing, dlq, wbatch, wjob, woutcome, wpre,
                   requeueCount, dispatchCount, origPriority, cancelled, cpc,
                   cjid, cjob, wzadd, wpushed>>

\* process_job: await asyncio.sleep(backoff_seconds), then
\* ZADD task_queue {job_id: -job.priority.value}
WorkerRequeue(w) ==
    /\ wpc[w] = "backoff"
    /\ queue' = zadd(queue, Cur(w), QueueScore(wjob[w].priority))
    /\ requeueCount' = [requeueCount EXCEPT ![Cur(w)] = @ + 1]
    /\ wzadd' = [wzadd EXCEPT ![w] = queue'[Cur(w)]]
    /\ wpc' = [wpc EXCEPT ![w] = "srem"]
    /\ UNCHANGED nonQueue
    /\ UNCHANGED <<jobs, processing, dlq, wbatch, wjob, woutcome, wpre,
                   dispatchCount, origPriority, cancelled, cpc, cjid, cjob,
                   wpushed>>

\* process_job: _handle_dead_letter(job) for a job that ended failed
WorkerDeadLetter(w) ==
    /\ wpc[w] = "dlq"
    /\ dlq' = handle_dead_letter(dlq, Cur(w), wjob[w])
    /\ wpushed' = [wpushed EXCEPT ![w] = @ + Len(dlq') - Len(dlq)]
    /\ wpc' = [wpc EXCEPT ![w] = "srem"]
    /\ UNCHANGED nonQueue
    /\ UNCHANGED <<jobs, queue, processing, wbatch, wjob, woutcome, wpre,
                   requeueCount, dispatchCount, origPriority, cancelled, cpc,
                   cjid, cjob, wzadd>>

\* worker_loop: the finally clause, SREM task_queue:processing job_id, and the
\* step to the next id of the batch or back to ZRANGE
WorkerSrem(w) ==
    /\ wpc[w] = "srem"
    /\ processing' = processing \ {Cur(w)}
    /\ wbatch' = [wbatch EXCEPT ![w] = Tail(@)]
    /\ wpc' = [wpc EXCEPT ![w] = IF Tail(wbatch[w]) = <<>> THEN "fetch"
                                 ELSE "zrem"]
    /\ wjob' = [wjob EXCEPT ![w] = NoJob]
    /\ woutcome' = [woutcome EXCEPT ![w] = "none"]
    /\ wpre' = [wpre EXCEPT ![w] = 0]
    /\ wzadd' = [wzadd EXCEPT ![w] = 0]
    /\ wpushed' = [wpushed EXCEPT ![w] = 0]
    /\ UNCHANGED nonQueue
    /\ UNCHANGED <<jobs, queue, dlq, requeueCount, dispatchCount,
                   origPriority, cancelled, cpc, cjid, cjob>>

\* The process that runs worker_loop is killed and started again: what the
\* task held in memory is gone, what it wrote to the store stays
WorkerCrash(w) ==
    /\ wpc[w] # "fetch"
    /\ wpc' = [wpc EXCEPT ![w] = "fetch"]
    /\ wbatch' = [wbatch EXCEPT ![w] = <<>>]
    /\ wjob' = [wjob EXCEPT ![w] = NoJob]
    /\ woutcome' = [woutcome EXCEPT ![w] = "none"]
    /\ wpre' = [wpre EXCEPT ![w] = 0]
    /\ wzadd' = [wzadd EXCEPT ![w] = 0]
    /\ wpushed' = [wpushed EXCEPT ![w] = 0]
    /\ UNCHANGED nonQueue
    /\ UNCHANGED <<jobs, queue, processing, dlq, requeueCount, dispatchCount,
                   origPriority, cancelled, cpc, cjid, cjob>>

\* TaskQueue.cancel_job: ZREM task_queue job_id.  A reply of 0 returns False;
\* otherwise the caller goes on to load the record.
CancelZrem(j) ==
    /\ cpc = "idle"
    /\ j \in DOMAIN jobs
    /\ queue' = zrem(queue, j)
    /\ IF j \in DOMAIN queue
       THEN /\ cpc' = "load"
            /\ cjid' = j
       ELSE UNCHANGED <<cpc, cjid>>
    /\ UNCHANGED nonQueue
    /\ UNCHANGED <<jobs, processing, dlq, wpc, wbatch, wjob, woutcome, wpre,
                   requeueCount, dispatchCount, origPriority, cancelled, cjob,
                   wzadd, wpushed>>

\* cancel_job: job = await get_job(job_id); job.mark_cancelled()
CancelLoad ==
    /\ cpc = "load"
    /\ cjob' = mark_cancelled(jobs[cjid])
    /\ cpc' = "save"
    /\ UNCHANGED nonQueue
    /\ UNCHANGED <<jobs, queue, processing, dlq, wpc, wbatch, wjob, woutcome,
                   wpre, requeueCount, dispatchCount, origPriority, cancelled,
                   cjid, wzadd, wpushed>>

\* cancel_job: await _save_job(job); return True
CancelSave ==
    /\ cpc = "save"
    /\ jobs' = [jobs EXCEPT ![cjid] = cjob]
    /\ cancelled' = cancelled \cup {cjid}
    /\ cpc' = "idle"
    /\ cjob' = NoJob
    /\ UNCHANGED nonQueue
    /\ UNCHANGED <<queue, processing, dlq, wpc, wbatch, wjob, woutcome, wpre,
                   requeueCount, dispatchCount, origPriority, cjid, wzadd,
                   wpushed>>

QNext ==
    \/ \E j \in JobIds, c \in EnqueueCalls : EnqueueJob(j, c[1], c[2], c[3])
    \/ \E w \in Workers : WorkerFetch(w)
    \/ \E w \in Workers : WorkerZrem(w)
    \/ \E w \in Workers : WorkerSadd(w)
    \/ \E w \in Workers : WorkerGet(w)
    \/ \E w \in Workers : WorkerStart(w)
    \/ \E w \in Workers, o \in Outcomes : WorkerHandler(w, o)
    \/ \E w \in Workers : WorkerSave(w)
    \/ \E w \in Workers : WorkerRequeue(w)
    \/ \E w \in Workers : WorkerDeadLetter(w)
    \/ \E w \in Workers : WorkerSrem(w)

\* The queue with one caller of cancel_job beside the workers
QCancelNext ==
    \/ QNext
    \/ \E j \in JobIds : CancelZrem(j)
    \/ CancelLoad
    \/ CancelSave

\* The steps of worker_loop and of what it calls
WorkerStep(w) ==
    \/ WorkerFetch(w)
    \/ WorkerZrem(w)
    \/ WorkerSadd(w)
    \/ WorkerGet(w)
    \/ WorkerStart(w)
    \/ \E o \in Outcomes : WorkerHandler(w, o)
    \/ WorkerSave(w)
    \/ WorkerRequeue(w)
    \/ WorkerDeadLetter(w)
    \/ WorkerSrem(w)

\* One worker_loop task whose process can be killed and restarted
QCrashNext ==
    \/ \E j \in OrderJobIds, c \in EnqueueCalls :
          EnqueueJob(j, c[1], c[2], c[3])
    \/ WorkerFetch(1)
    \/ WorkerZrem(1)
    \/ WorkerSadd(1)
    \/ WorkerGet(1)
    \/ WorkerStart(1)
    \/ \E o \in Outcomes : WorkerHandler(1, o)
    \/ WorkerSave(1)
    \/ WorkerRequeue(1)
    \/ WorkerDeadLetter(1)
    \/ WorkerSrem(1)
    \/ WorkerCrash(1)

\* One worker_loop task that is never killed, with jobs arriving while it
\* works through a batch
QSingleNext ==
    \/ \E j \in OrderJobIds, c \in EnqueueCalls :
          EnqueueJob(j, c[1], c[2], c[3])
    \/ WorkerFetch(1)
    \/ WorkerZrem(1)
    \/ WorkerSadd(1)
    \/ WorkerGet(1)
    \/ WorkerStart(1)
    \/ \E o \in Outcomes : WorkerHandler(1, o)
    \/ WorkerSave(1)
    \/ WorkerRequeue(1)
    \/ WorkerDeadLetter(1)
    \/ WorkerSrem(1)

\* One worker_loop task whose handlers all return, with jobs arriving while
\* it works through a batch
QOrderNext ==
    \/ \E j \in OrderJobIds, c \in EnqueueCalls :
          EnqueueJob(j, c[1], c[2], c[3])
    \/ WorkerFetch(1)
    \/ WorkerZrem(1)
    \/ WorkerSadd(1)
    \/ WorkerGet(1)
    \/ WorkerStart(1)
    \/ WorkerHandler(1, "ok")
    \/ WorkerSave(1)
    \/ WorkerDeadLetter(1)
    \/ WorkerSrem(1)

\* ---------------------------------------------------------------------------
\* Claims about the job queue
\* ---------------------------------------------------------------------------

\* C1: with several worker loops on one store, a job id that was enqueued once
\* (and never re-added after a backoff) is taken and handed to its handler by
\* at most one worker, whatever the interleaving.
C1_SingleDispatch ==
    \A j \in JobIds : requeueCount[j] = 0 => dispatchCount[j] <= 1

\* The case of C2: the handler call of worker w raised while the job had
\* retries left
RetryCase(w) ==
    /\ woutcome[w] = "raise"
    /\ wpre[w] < wjob[w].max_retries

\* C2: when a handler raises and retry_count < max_retries, retry_count goes up
\* by exactly one, the job is marked retrying (and saved so), process_job takes
\* the backoff branch and not the dead-letter branch, and after the sleep the
\* id is added to the queue with the score -priority of the original enqueue.
C2_RetryRequeuesSamePriority ==
    \A w \in Workers : RetryCase(w) =>
        /\ wjob[w].retry_count = wpre[w] + 1
        /\ wjob[w].status = "retrying"
        /\ wpc[w] \in {"save", "backoff", "srem"}
        /\ wpushed[w] = 0
        /\ wpc[w] = "srem" => wzadd[w] = 0 - origPriority[Cur(w)]

\* Witness of C2: a worker has re-added a job after a raise with retries left
C2_Witness ==
    \E w \in Workers :
        /\ RetryCase(w)
        /\ wpc[w] = "srem"
        /\ wzadd[w] = 0 - HIGH
        /\ wjob[w].retry_count = 1

\* The case of C3: the handler call of worker w raised while the job had no
\* retry left
ExhaustedCase(w) ==
    /\ woutcome[w] = "raise"
    /\ wpre[w] >= wjob[w].max_retries

\* C3: when a handler raises and retry_count is not below max_retries, the job
\* is marked failed with the error of that call, is not added back to the
\* queue, and process_job pushes exactly one dead-letter entry for it, which
\* carries the job id, its type, that error and the retry count.
C3_ExhaustedGoesToDlqOnce ==
    \A w \in Workers : ExhaustedCase(w) =>
        /\ wjob[w].status = "failed"
        /\ wjob[w].error = "exception"
        /\ wjob[w].retry_count = wpre[w]
        /\ wpc[w] \in {"save", "dlq", "srem"}
        /\ wzadd[w] = 0
        /\ wpc[w] \in {"save", "dlq"} => wpushed[w] = 0
        /\ wpc[w] = "srem" =>
              /\ wpushed[w] = 1
              /\ \E i \in 1..Len(dlq) :
                    dlq[i] = [job_id |-> Cur(w),
                              job_type |-> wjob[w].job_type,
                              error |-> "exception",
                              failed_at |-> "utcnow",
                              retry_count |-> wpre[w]]
              /\ dispatchCount[Cur(w)] = 1 =>
                    Cardinality({i \in 1..Len(dlq) :
                                    dlq[i].job_id = Cur(w)}) = 1

\* Witness of C3: a job with max_retries = 0 failed once and its entry is on
\* the dead-letter list
C3_Witness ==
    \E w \in Workers :
        /\ ExhaustedCase(w)
        /\ wpc[w] = "srem"
        /\ wjob[w].max_retries = 0
        /\ wpushed[w] = 1
        /\ dispatchCount[Cur(w)] = 1

\* C4: a handler call cut off by timeout_seconds leaves the job marked timeout
\* and counts as a failure for retry: when process_job is through with it, the
\* id has been added back to the queue (retries left) or an entry for it has
\* been pushed on the dead-letter list (no retry left).
C4_TimeoutRetriedOrDeadLettered ==
    \A w \in Workers :
        (woutcome[w] = "timeout" /\ wpc[w] = "srem") =>
            /\ jobs[Cur(w)].status \in {"timeout", "retrying", "failed"}
            /\ IF wpre[w] < wjob[w].max_retries
               THEN wzadd[w] = 0 - origPriority[Cur(w)]
               ELSE wpushed[w] = 1

\* The ids waiting in the queue whose priority is above that of job
HigherWaiting(job) ==
    {j \in DOMAIN queue : jobs[j].priority > job.priority}

\* C13: higher priority is strictly preferred: whenever a worker hands a job
\* to its handler, no job of strictly higher priority is waiting in the
\* queue at that moment.
C13_NoHigherPriorityWaiting ==
    [][\A w \in Workers :
          (wpc[w] = "handler" /\ wpc'[w] = "save") =>
              HigherWaiting(wjob[w]) = {}]_qvars

\* C14: every job id observed in `processing` is eventually removed from it
\* (the code has no recovery sweep that could detect a crashed worker, so
\* removal is the only way the claim can hold for an id).
C14_ProcessingEventuallyRemoved ==
    \A j \in OrderJobIds : (j \in processing) ~> (j \notin processing)

\* C15: cancel_job succeeds (returns True and marks the job cancelled) only
\* if the job has not yet started: neither when it goes on after its ZREM
\* nor when it saves the cancelled record and returns True has a worker
\* marked the stored job as started.
C15_CancelOnlyBeforeStart ==
    [][/\ (cpc = "idle" /\ cpc' = "load") => ~jobs[cjid'].started_at
       /\ (cpc = "save" /\ cpc' = "idle") => ~jobs[cjid].started_at]_qvars

\* Ids that wait for worker w while it handles Cur(w): those in the sorted set
\* and the rest of the batch it has read
WaitingBehind(w) ==
    (DOMAIN queue \cup {wbatch[w][i] : i \in 2..Len(wbatch[w])}) \ {Cur(w)}

\* C38: with a single worker, no job waits for the worker while the worker
\* sleeps the backoff of another job.  A worker at the sleep of process_job
\* takes no step but the ZADD that follows it, so a job that waits then is
\* dispatched only after the sleep has been waited out.
C38_NoJobWaitsOutBackoff ==
    wpc[1] = "backoff" => WaitingBehind(1) = {}

\* C36: once cancel_job(id) has returned True the stored status of the job
\* stays cancelled and no worker hands the job to its handler any more, a
\* worker that had read the id in its batch before the cancel included.
C36_CancelledNeverDispatched ==
    /\ [](\A j \in cancelled : jobs[j].status = "cancelled")
    /\ [][\A j \in cancelled : dispatchCount'[j] = dispatchCount[j]]_qvars

\* ---------------------------------------------------------------------------
\* Retry backoff: task_queue.py, process_job for one job whose handler is
\* called again after every retry
\* ---------------------------------------------------------------------------

\* What the actions of the backoff scenario leave alone
nonBackoff ==
    <<qvars, bvars, avars, rvars, cvars, evars, gvars, wvars, fvars, svars,
      lvars, dvars, tvars>>

KInit ==
    /\ kjob = NoJob
    /\ kslept = <<>>

\* enqueue_job(job_type, payload, priority, max_retries) of the one job
BackoffEnqueue(priority, max_retries) ==
    /\ kjob = NoJob
    /\ kjob' = NewJob("workflow", priority, max_retries)
    /\ UNCHANGED kslept
    /\ UNCHANGED nonBackoff

\* process_job for the job while it is queued: _process_job with the handler
\* call ending in outcome, then for a job left retrying the sleep of
\* backoff_seconds before the ZADD
BackoffProcess(outcome) ==
    /\ kjob.status \in {"pending", "retrying"}
    /\ LET job == AfterHandler(mark_running(kjob), outcome)
       IN /\ kjob' = job
          /\ kslept' =
                IF AfterProcess(job) = "backoff"
                THEN Append(kslept, [retry_count |-> job.retry_count,
                                     seconds |-> BackoffSeconds(job)])
                ELSE kslept
    /\ UNCHANGED nonBackoff

KNext ==
    \/ \E priority \in JobPriority, max_retries \in 0..MaxBackoffRetries :
          BackoffEnqueue(priority, max_retries)
    \/ \E outcome \in Outcomes : BackoffProcess(outcome)

\* C27: the backoff slept before a retrying job is queued again is 60 * 2^n
\* seconds for retry_count n, capped at 3600: the first sleep (n = 1) is
\* 120 s, each further sleep of the same job is twice the one before unless
\* that exceeds one hour, and no sleep exceeds 3600 s.
C27_BackoffDoublesCappedAtHour ==
    \A i \in DOMAIN kslept :
        /\ kslept[i].retry_count = i
        /\ kslept[i].seconds <= 3600
        /\ i = 1 => kslept[i].seconds = 60 * 2
        /\ i > 1 =>
              kslept[i].seconds =
                  IF 2 * kslept[i - 1].seconds <= 3600
                  THEN 2 * kslept[i - 1].seconds
                  ELSE 3600

\* Witness of C27: a job slept 1920 s before its fifth retry and 3600 s, the
\* cap, before its sixth
C27_Witness ==
    /\ Len(kslept) >= 6
    /\ kslept[5].seconds = 1920
    /\ kslept[6].seconds = 3600
    /\ kjob.status = "retrying"

\* ---------------------------------------------------------------------------
\* Event bus: streaming.py
\* ---------------------------------------------------------------------------

\* Subscriber ids of the model
SubIds == {"s1", "s2", "s3"}

\* The subscribers whose callback raises an Exception on every call
RaisingSubs == {"s3"}

\* class EventPriority
EventPriority == {LOW, NORMAL, HIGH, CRITICAL}

\* Absent value of execution_id / project_id (None)
None == "None"

\* The emit calls of the model: event_type, source, execution_id, project_id,
\* priority
EmitCalls ==
    { [event_type |-> "log", source |-> "agent", execution_id |-> "x1",
       project_id |-> "P1", priority |-> NORMAL],
      [event_type |-> "error", source |-> "agent", execution_id |-> "x1",
       project_id |-> "P2", priority |-> CRITICAL],
      [event_type |-> "status", source |-> "system", execution_id |-> None,
       project_id |-> None, priority |-> LOW] }

\* class EventFilter: a criterion left out (None) and an empty set both let
\* every event through; min_priority defaults to EventPriority.LOW
FilterAll ==
    [event_types |-> {}, sources |-> {}, execution_ids |-> {},
     project_ids |-> {}, min_priority |-> LOW]

FilterProject ==
    [event_types |-> {}, sources |-> {}, execution_ids |-> {},
     project_ids |-> {"P1"}, min_priority |-> LOW]

\* EventFilter(project_ids={project_id}) of a second project
FilterProjectP2 ==
    [event_types |-> {}, sources |-> {}, execution_ids |-> {},
     project_ids |-> {"P2"}, min_priority |-> LOW]

FilterAgentHigh ==
    [event_types |-> {"log", "error"}, sources |-> {"agent"},
     execution_ids |-> {"x1"}, project_ids |-> {}, min_priority |-> HIGH]

\* The subscribe calls of the model: subscriber id, filter
SubscribeCalls ==
    {<<"s1", FilterAll>>, <<"s1", FilterAgentHigh>>, <<"s2", FilterProject>>}

\* A subscriber whose callback returns and one whose callback raises
FaultySubscribeCalls == {<<"s1", FilterAgentHigh>>, <<"s3", FilterAll>>}

\* Subscriber A on project P1 and subscriber B on project P2
ProjectSubscribeCalls == {<<"s1", FilterProject>>, <<"s2", FilterProjectP2>>}

NoFilter == [absent |-> TRUE]

\* A filter whose project criterion lets every event through
matches_any_project(f, event) ==
    /\ (f.event_types # {} => event.event_type \in f.event_types)
    /\ (f.sources # {} => event.source \in f.sources)
    /\ (f.execution_ids # {} => event.execution_id \in f.execution_ids)
    /\ ~(event.priority < f.min_priority)

\* EventFilter.matches
matches(f, event) ==
    /\ (f.event_types # {} => event.event_type \in f.event_types)
    /\ (f.sources # {} => event.source \in f.sources)
    /\ (f.execution_ids # {} => event.execution_id \in f.execution_ids)
    /\ (f.project_ids # {} => event.project_id \in f.project_ids)
    /\ ~(event.priority < f.min_priority)

\* Subscriber.send_event for the subscriber registered under s: TRUE when the
\* callback is invoked with event e
send_event(s, e) ==
    /\ subscribers[s] # NoFilter
    /\ matches(subscribers[s], events[e])

\* Where sorted(..., reverse=True) puts an element that comes after the
\* elements of `done` in the buffer: behind every element whose priority is
\* not lower (the sort is stable)
InsertByPriority(done, e) ==
    LET k == Cardinality({i \in 1..Len(done) :
                            events[done[i]].priority >= events[e].priority})
    IN SubSeq(done, 1, k) \o <<e>> \o SubSeq(done, k + 1, Len(done))

\* A flush that delivers in arrival order
sorted_events_unsorted(buffer) == buffer

\* _flush_buffer_unsafe: sorted(event_buffer, key=priority, reverse=True)
RECURSIVE sorted_events(_)
sorted_events(buffer) ==
    IF buffer = <<>> THEN <<>>
    ELSE InsertByPriority(sorted_events(SubSeq(buffer, 1, Len(buffer) - 1)),
                          buffer[Len(buffer)])

\* Subscriber.send_event: the callback is called and raises; the except
\* clause logs the error and send_event returns False
callback_raises(s, e) == send_event(s, e) /\ s \in RaisingSubs

\* A flush that ends at the first event on which a callback raises
RECURSIVE DeliveriesUntilRaise(_, _, _)
DeliveriesUntilRaise(s, evs, batch) ==
    IF evs = <<>> THEN <<>>
    ELSE IF \E t \in SubIds : callback_raises(t, Head(evs))
    THEN (IF callback_raises(s, Head(evs))
          THEN <<[event |-> Head(evs), batch |-> batch]>>
          ELSE <<>>)
    ELSE (IF send_event(s, Head(evs))
          THEN <<[event |-> Head(evs), batch |-> batch]>>
          ELSE <<>>) \o DeliveriesUntilRaise(s, Tail(evs), batch)

\* _flush_buffer_unsafe: the invocations one flush adds to the log of
\* subscriber s, for the events evs in delivery order.  For each event the
\* send_event coroutines of all subscribers are gathered with
\* return_exceptions=True, and send_event catches what its callback raises:
\* a callback that raises was invoked, and ends neither the gather nor the
\* loop over the events.
RECURSIVE Deliveries(_, _, _)
Deliveries(s, evs, batch) ==
    IF evs = <<>> THEN <<>>
    ELSE (IF send_event(s, Head(evs))
          THEN <<[event |-> Head(evs), batch |-> batch]>>
          ELSE <<>>) \o Deliveries(s, Tail(evs), batch)

\* A flush that leaves the buffer as it is
buffer_kept_after_flush(buffer) == buffer

\* _flush_buffer_unsafe: self.event_buffer.clear()
buffer_after_flush(buffer) == <<>>

\* Members of a sequence
Range(seq) == {seq[i] : i \in 1..Len(seq)}


\* What the actions of the event bus leave alone
nonBus ==
    <<qvars, avars, rvars, cvars, evars, gvars, wvars, kvars, fvars, svars,
      lvars, dvars, tvars>>

\* StreamingHandler.__init__
BInit ==
    /\ running = FALSE
    /\ subscribers = [s \in SubIds |-> NoFilter]
    /\ events = <<>>
    /\ event_queue = <<>>
    /\ event_buffer = <<>>
    /\ lock = "free"
    /\ ppc = "off"
    /\ inhand = 0
    /\ spc = "idle"
    /\ delivered = [s \in SubIds |-> <<>>]
    /\ batchNo = 0
    /\ dueTo = <<>>
    /\ flushedEv = {}

\* _flush_buffer_unsafe, from the sort to the clear, with the lock held: the
\* callbacks are awaited inside, and nothing else touches the buffer or the
\* subscriber table meanwhile
FlushBufferUnsafe ==
    IF event_buffer = <<>>
    THEN UNCHANGED <<event_buffer, delivered, batchNo, flushedEv>>
    ELSE /\ delivered' =
              [s \in SubIds |->
                  delivered[s] \o
                  Deliveries(s, sorted_events(event_buffer), batchNo + 1)]
         /\ batchNo' = batchNo + 1
         /\ flushedEv' = flushedEv \cup Range(event_buffer)
         /\ event_buffer' = buffer_after_flush(event_buffer)

\* _process_events: append under the lock, flush when the buffer is full
AppendAndFlushIfFull(e) ==
    IF Len(event_buffer) + 1 >= BufferSize
    THEN /\ delivered' =
              [s \in SubIds |->
                  delivered[s] \o
                  Deliveries(s, sorted_events(Append(event_buffer, e)),
                             batchNo + 1)]
         /\ batchNo' = batchNo + 1
         /\ flushedEv' = flushedEv \cup Range(event_buffer) \cup {e}
         /\ event_buffer' = buffer_after_flush(Append(event_buffer, e))
    ELSE /\ event_buffer' = Append(event_buffer, e)
         /\ UNCHANGED <<delivered, batchNo, flushedEv>>

\* StreamingHandler.start; lifecycle calls are made one after the other
\* (main.py lifespan), so no start runs while a stop is under way
Start ==
    /\ ~running
    /\ spc = "idle"
    /\ running' = TRUE
    /\ ppc' = "top"
    /\ UNCHANGED <<subscribers, events, event_queue, event_buffer, lock,
                   inhand, spc, delivered, batchNo, dueTo, flushedEv>>
    /\ UNCHANGED nonBus

\* StreamingHandler.emit: dropped when the handler is not running, else put on
\* the (unbounded) queue
EmitEvent(call) ==
    /\ events' = Append(events, call)
    /\ IF running
       THEN /\ event_queue' = Append(event_queue, Len(events) + 1)
            /\ dueTo' = Append(dueTo,
                   {s \in SubIds : /\ subscribers[s] # NoFilter
                                   /\ matches(subscribers[s], call)})
       ELSE /\ dueTo' = Append(dueTo, {})
            /\ UNCHANGED event_queue
    /\ UNCHANGED <<running, subscribers, event_buffer, lock, ppc, inhand, spc,
                   delivered, batchNo, flushedEv>>
    /\ UNCHANGED nonBus

\* An emit call, as long as the model has events left
Emit(call) ==
    /\ Len(events) < MaxEvents
    /\ EmitEvent(call)

\* An emit call for an event that was not emitted before
EmitOnce(call) ==
    /\ call \notin Range(events)
    /\ EmitEvent(call)

\* The subscriptions an event is still owed to once s is replaced or removed
WithoutPending(s) ==
    [e \in 1..Len(dueTo) |->
        IF e \in flushedEv THEN dueTo[e] ELSE dueTo[e] \ {s}]

\* StreamingHandler.subscribe: a new Subscriber under the id, replacing any
\* subscriber already registered under it
Subscribe(s, f) ==
    /\ lock = "free"
    /\ subscribers' = [subscribers EXCEPT ![s] = f]
    /\ dueTo' = WithoutPending(s)
    /\ UNCHANGED <<running, events, event_queue, event_buffer, lock, ppc,
                   inhand, spc, delivered, batchNo, flushedEv>>
    /\ UNCHANGED nonBus

\* StreamingHandler.unsubscribe of a registered id
Unsubscribe(s) ==
    /\ lock = "free"
    /\ subscribers[s] # NoFilter
    /\ subscribers' = [subscribers EXCEPT ![s] = NoFilter]
    /\ dueTo' = WithoutPending(s)
    /\ UNCHANGED <<running, events, event_queue, event_buffer, lock, ppc,
                   inhand, spc, delivered, batchNo, flushedEv>>
    /\ UNCHANGED nonBus

\* _process_events: the test of the while loop
ProcLoop ==
    /\ ppc = "top"
    /\ ppc' = IF running THEN "wait" ELSE "off"
    /\ UNCHANGED <<running, subscribers, events, event_queue, event_buffer,
                   lock, inhand, spc, delivered, batchNo, dueTo, flushedEv>>
    /\ UNCHANGED nonBus

\* A queue that hands out the event put last
queue_get_newest(q) ==
    [event |-> q[Len(q)], rest |-> SubSeq(q, 1, Len(q) - 1)]

\* asyncio.Queue.get on a queue that is not empty: the event put first
queue_get(q) == [event |-> Head(q), rest |-> Tail(q)]

\* _process_events: event_queue.get() returns an event; with the lock free the
\* event is appended at once, else the task waits for the lock holding it
ProcGet ==
    /\ ppc = "wait"
    /\ event_queue # <<>>
    /\ event_queue' = queue_get(event_queue).rest
    /\ IF lock = "free"
       THEN /\ AppendAndFlushIfFull(queue_get(event_queue).event)
            /\ ppc' = "top"
            /\ UNCHANGED inhand
       ELSE /\ inhand' = queue_get(event_queue).event
            /\ ppc' = "lock"
            /\ UNCHANGED <<event_buffer, delivered, batchNo, flushedEv>>
    /\ UNCHANGED <<running, subscribers, events, lock, spc, dueTo>>
    /\ UNCHANGED nonBus

\* _process_events: wait_for times out on an empty queue; flush what is there
ProcTimeout ==
    /\ ppc = "wait"
    /\ event_queue = <<>>
    /\ lock = "free"
    /\ FlushBufferUnsafe
    /\ ppc' = "top"
    /\ UNCHANGED <<running, subscribers, events, event_queue, lock, inhand,
                   spc, dueTo>>
    /\ UNCHANGED nonBus

\* StreamingHandler.stop up to its first await
StopBegin ==
    /\ running
    /\ spc = "idle"
    /\ running' = FALSE
    /\ spc' = "flush"
    /\ UNCHANGED <<subscribers, events, event_queue, event_buffer, lock, ppc,
                   inhand, delivered, batchNo, dueTo, flushedEv>>
    /\ UNCHANGED nonBus

\* stop: _flush_buffer takes the lock.  With a batch to deliver and a
\* subscriber to deliver it to, the flush awaits the callbacks and the lock
\* stays held; else the flush ends without a suspension and stop goes on to
\* cancel the processor task
StopFlush ==
    /\ spc = "flush"
    /\ lock = "free"
    /\ IF event_buffer # <<>> /\ \E s \in SubIds : subscribers[s] # NoFilter
       THEN /\ lock' = "stop"
            /\ spc' = "flushing"
            /\ UNCHANGED <<event_buffer, delivered, batchNo, flushedEv, ppc>>
       ELSE /\ FlushBufferUnsafe
            /\ ppc' = "off"
            /\ spc' = "idle"
            /\ UNCHANGED lock
    /\ UNCHANGED <<running, subscribers, events, event_queue, inhand, dueTo>>
    /\ UNCHANGED nonBus

\* stop: the callbacks have returned; the buffer is cleared, the lock released
\* and the processor task cancelled where it stands, with what it holds
StopFinish ==
    /\ spc = "flushing"
    /\ FlushBufferUnsafe
    /\ lock' = "free"
    /\ ppc' = "off"
    /\ inhand' = 0
    /\ spc' = "idle"
    /\ UNCHANGED <<running, subscribers, events, event_queue, dueTo>>
    /\ UNCHANGED nonBus

BNext ==
    \/ Start
    \/ \E call \in EmitCalls : Emit(call)
    \/ \E c \in SubscribeCalls : Subscribe(c[1], c[2])
    \/ \E s \in SubIds : Unsubscribe(s)
    \/ ProcLoop
    \/ ProcGet
    \/ ProcTimeout
    \/ StopBegin
    \/ StopFlush
    \/ StopFinish

\* The bus with a subscriber whose callback raises
BFaultyNext ==
    \/ Start
    \/ \E call \in EmitCalls : Emit(call)
    \/ \E c \in FaultySubscribeCalls : Subscribe(c[1], c[2])
    \/ \E s \in SubIds : Unsubscribe(s)
    \/ ProcLoop
    \/ ProcGet
    \/ ProcTimeout
    \/ StopBegin
    \/ StopFlush
    \/ StopFinish

\* The bus with one subscriber per project and one event for each project
\* and one without a project
BProjectNext ==
    \/ Start
    \/ \E call \in EmitCalls : EmitOnce(call)
    \/ \E c \in ProjectSubscribeCalls : Subscribe(c[1], c[2])
    \/ \E s \in SubIds : Unsubscribe(s)
    \/ ProcLoop
    \/ ProcGet
    \/ ProcTimeout
    \/ StopBegin
    \/ StopFlush
    \/ StopFinish

\* ---------------------------------------------------------------------------
\* Claims about the event bus
\* ---------------------------------------------------------------------------

\* Number of times the callback of s was invoked with event e
Invocations(s, e) ==
    Cardinality({i \in 1..Len(delivered[s]) : delivered[s][i].event = e})

\* Event e is still on its way to a flush
Pending(e) ==
    \/ e \in Range(event_queue)
    \/ e \in Range(event_buffer)
    \/ e = inhand

C6_PriorityDescendingInBatch ==
    \A s \in SubIds : \A i, j \in 1..Len(delivered[s]) :
        (i < j /\ delivered[s][i].batch = delivered[s][j].batch) =>
            events[delivered[s][i].event].priority >=
                events[delivered[s][j].event].priority

\* Witness of C6: in one batch a subscriber got an event of higher priority
\* before an event that was emitted earlier
C6_Witness ==
    \E s \in SubIds : \E i, j \in 1..Len(delivered[s]) :
        /\ i < j
        /\ delivered[s][i].batch = delivered[s][j].batch
        /\ delivered[s][i].event > delivered[s][j].event
        /\ events[delivered[s][i].event].priority >
               events[delivered[s][j].event].priority

\* C18: across batches delivery follows arrival order: in the log of one
\* subscriber the events of an earlier flush come before those of a later
\* one, and an event of an earlier batch was emitted before every event of
\* a later batch, whoever received them.
C18_ArrivalOrderAcrossBatches ==
    /\ \A s \in SubIds : \A i, j \in 1..Len(delivered[s]) :
          i < j => delivered[s][i].batch <= delivered[s][j].batch
    /\ \A s, t \in SubIds :
          \A i \in 1..Len(delivered[s]) : \A j \in 1..Len(delivered[t]) :
              delivered[s][i].batch < delivered[t][j].batch =>
                  delivered[s][i].event < delivered[t][j].event

\* Witness of C18: one subscriber received two events in two flushes
C18_Witness ==
    \E s \in SubIds : \E i, j \in 1..Len(delivered[s]) :
        /\ i < j
        /\ delivered[s][i].batch < delivered[s][j].batch
        /\ delivered[s][i].event < delivered[s][j].event

\* The project ids of the events the callback of s was invoked with
ProjectsReceived(s) ==
    {events[delivered[s][i].event].project_id : i \in 1..Len(delivered[s])}

\* C16: with subscriber s1 filtered on project_ids = {P1} and s2 on
\* project_ids = {P2}, s1 receives events of P1 only and s2 events of P2
\* only; an event without a project is delivered to neither.
C16_ProjectFilterIsolates ==
    /\ ProjectsReceived("s1") \subseteq {"P1"}
    /\ ProjectsReceived("s2") \subseteq {"P2"}

\* Witness of C16: the events for P1, for P2 and without a project were all
\* emitted and flushed with both subscribers registered; s1 got the one of
\* P1 and s2 the one of P2
C16_Witness ==
    /\ Len(events) = 3
    /\ flushedEv = {1, 2, 3}
    /\ \A e \in {1, 2, 3} : events[e].project_id = None \/ dueTo[e] # {}
    /\ ProjectsReceived("s1") = {"P1"}
    /\ ProjectsReceived("s2") = {"P2"}
    /\ Len(delivered["s1"]) = 1
    /\ Len(delivered["s2"]) = 1

\* A callback raised while event e was being delivered
RaisedOn(e) == \E s \in RaisingSubs : Invocations(s, e) >= 1

\* C17: if the callback of one subscriber raises while an event is being
\* delivered, every other subscriber the event is due to (registered with a
\* matching filter) still receives it, and so does every subscriber that
\* any flushed event is due to, the remaining events of the batch included.
C17_RaiseDoesNotBlockDelivery ==
    \A e \in flushedEv :
        RaisedOn(e) =>
            \A e2 \in flushedEv : \A s \in dueTo[e2] :
                Invocations(s, e2) = 1

\* Witness of C17: in one batch the raising callback of s3 was called with
\* an event, s1 got that event too, and both were called with the next event
\* of the batch after it
C17_Witness ==
    \E i, j \in 1..Len(delivered["s3"]) :
        \E k, l \in 1..Len(delivered["s1"]) :
            /\ i < j /\ k < l
            /\ delivered["s3"][i].batch = delivered["s3"][j].batch
            /\ delivered["s1"][k] = delivered["s3"][i]
            /\ delivered["s1"][l] = delivered["s3"][j]
            /\ RaisedOn(delivered["s3"][i].event)
            /\ "s1" \in dueTo[delivered["s3"][i].event]
            /\ "s1" \in dueTo[delivered["s3"][j].event]

\* C33: the event bus never holds its mutex across a suspension point: at
\* every point where another task can run (while the callbacks of a flush
\* are awaited in particular) the mutex is free, so that subscribe and
\* unsubscribe are not kept waiting for a delivery.
C33_LockFreeAtSuspension ==
    lock = "free"

\* The bus is stopped: stop() has returned and the processor task has ended
Stopped ==
    /\ ~running
    /\ spc = "idle"
    /\ ppc = "off"

\* C37: every event that emit accepted while the bus was running is
\* delivered to the subscribers it matches: once stop() has returned, every
\* subscriber an accepted event is due to has been called with it, the
\* events that were still in the internal queue when stop() was called
\* included.
C37_AcceptedEventsDeliveredByStop ==
    Stopped =>
        \A e \in 1..Len(events) : \A s \in dueTo[e] :
            Invocations(s, e) >= 1

\* ---------------------------------------------------------------------------
\* Token authority: security.py, token_blacklist.py, deps.py, auth.py, main.py
\* ---------------------------------------------------------------------------

\* What the actions of the token authority leave alone
nonAuth ==
    <<qvars, bvars, rvars, cvars, evars, gvars, wvars, kvars, fvars, svars,
      lvars, dvars, tvars>>

Users == {"u1", "u2"}

\* Token id of a string that is no JWT signed with SECRET_KEY
Forged == 0

\* The bearer tokens a request can carry
Bearers == 0..MaxTokens

NoResp == [code |-> 0]

\* Keys of the blacklist: blacklist:{token} and blacklist:user:{user_id}
TokenKey(t) == <<"token", t>>
UserKey(u) == <<"user", u>>

\* redis SETEX key ttl value at the instant `clock`
setex(store, key, ttl) ==
    [k \in DOMAIN store \cup {key} |->
        IF k = key THEN clock + ttl ELSE store[k]]

\* redis EXISTS key
exists(store, key) == key \in DOMAIN store

\* security.verify_token: jwt.decode succeeds for a token signed by
\* create_access_token whose exp is not in the past; the result is the
\* payload, or NoResp for None
verify_token(t) ==
    IF t \in 1..Len(tokens) /\ ~(tokens[t].exp < clock)
    THEN tokens[t]
    ELSE NoResp

\* A check that reports a token as revoked when the store does not answer
is_token_revoked_fail_closed(t) ==
    ~redisUp \/ exists(blacklist, TokenKey(t))

\* TokenBlacklistService.is_token_revoked: fails open
is_token_revoked(t) == redisUp /\ exists(blacklist, TokenKey(t))

\* TokenBlacklistService.is_user_tokens_revoked: fails open
is_user_tokens_revoked(u) == redisUp /\ exists(blacklist, UserKey(u))

\* TokenBlacklistService.revoke_token: the store after the call
revoke_token(t, expires_in_seconds) ==
    IF redisUp THEN setex(blacklist, TokenKey(t), expires_in_seconds)
    ELSE blacklist

\* TokenBlacklistService.revoke_all_user_tokens: the store after the call
revoke_all_user_tokens(u) ==
    IF redisUp THEN setex(blacklist, UserKey(u), RefreshTokenTTL)
    ELSE blacklist

\* TokenBlacklistService.revoke_token, revoke_all_user_tokens: the value
\* returned, False without a client and when setex raises
revoke_returns == redisUp

\* The methods of TokenBlacklistService that read, and those that write
BlacklistReads == {"is_token_revoked", "is_user_tokens_revoked"}
BlacklistWrites == {"revoke_token", "revoke_all_user_tokens"}

\* deps.get_current_user: the status code of a request carrying token t
\* (every user of the model has a row in the database)
get_current_user(t) ==
    IF verify_token(t) = NoResp THEN 401
    ELSE IF ~userActive[verify_token(t).sub] THEN 403
    ELSE 200

\* main.websocket_endpoint up to the accept: 1008 or "accepted"
websocket_handshake(t) ==
    IF verify_token(t) = NoResp THEN 1008
    ELSE IF is_token_revoked(t) THEN 1008
    ELSE IF is_user_tokens_revoked(verify_token(t).sub) THEN 1008
    ELSE IF ~userActive[verify_token(t).sub] THEN 1008
    ELSE 101

\* The websocket routes of api/v1/websocket.py under their mount point:
\* global, project-scoped, execution-scoped
StreamEndpoints ==
    {"/api/v1/websocket/ws", "/api/v1/websocket/ws/project",
     "/api/v1/websocket/ws/execution"}

\* websocket.get_user_from_token: the user of a token that verify_token
\* accepts (every user of the model has a row in the database), else None
get_user_from_token(t) ==
    IF verify_token(t) = NoResp THEN None ELSE verify_token(t).sub

\* websocket_endpoint, websocket_project_endpoint and
\* websocket_execution_endpoint up to their message loop, for a project or
\* execution of the user: close with 1008 without a user, else
\* conn_manager.connect and, on the scoped routes, streaming_handler.subscribe
stream_handshake(endpoint, t) ==
    IF get_user_from_token(t) = None
    THEN [code |-> 1008, registered |-> FALSE, subscribed |-> FALSE]
    ELSE [code |-> 101, registered |-> TRUE,
          subscribed |-> endpoint # "/api/v1/websocket/ws"]

AInit ==
    /\ clock = 0
    /\ tokens = <<>>
    /\ blacklist = <<>>
    /\ redisUp = TRUE
    /\ userActive = [u \in Users |-> TRUE]
    /\ resp = NoResp
    /\ revoked = {}

\* POST /auth/login of an active user: security.create_access_token
Login(u) ==
    /\ Len(tokens) < MaxTokens
    /\ userActive[u]
    /\ tokens' = Append(tokens, [sub |-> u, exp |-> clock + AccessTokenTTL])
    /\ UNCHANGED <<clock, blacklist, redisUp, userActive, resp, revoked>>
    /\ UNCHANGED nonAuth

\* GET /auth/me with bearer token t
GetMe(t) ==
    /\ resp' = [endpoint |-> "/auth/me", code |-> get_current_user(t),
                revoked |-> t \in revoked /\ redisUp]
    /\ UNCHANGED <<clock, tokens, blacklist, redisUp, userActive, revoked>>
    /\ UNCHANGED nonAuth

\* POST /auth/logout with bearer token t, once get_current_user let it in
Logout(t) ==
    /\ get_current_user(t) = 200
    /\ IF tokens[t].exp - clock > 0
       THEN /\ blacklist' = revoke_token(t, tokens[t].exp - clock)
            /\ revoked' = IF redisUp THEN revoked \cup {t} ELSE revoked
       ELSE UNCHANGED <<blacklist, revoked>>
    /\ UNCHANGED <<clock, tokens, redisUp, userActive, resp>>
    /\ UNCHANGED nonAuth

\* token_blacklist.revoke_all_user_tokens(u) with the store answering
RevokeAllUserTokens(u) ==
    /\ redisUp
    /\ blacklist' = revoke_all_user_tokens(u)
    /\ revoked' = revoked \cup
          {t \in 1..Len(tokens) : tokens[t].sub = u /\ clock < tokens[t].exp}
    /\ UNCHANGED <<clock, tokens, redisUp, userActive, resp>>
    /\ UNCHANGED nonAuth

\* A handshake on /ws with token t
WsConnect(t) ==
    /\ resp' = [endpoint |-> "/ws", code |-> websocket_handshake(t),
                revoked |-> t \in revoked /\ redisUp]
    /\ UNCHANGED <<clock, tokens, blacklist, redisUp, userActive, revoked>>
    /\ UNCHANGED nonAuth

\* A handshake on one of the routes of api/v1/websocket.py with token t
StreamConnect(endpoint, t) ==
    /\ resp' = [endpoint |-> endpoint,
                code |-> stream_handshake(endpoint, t).code,
                registered |-> stream_handshake(endpoint, t).registered,
                subscribed |-> stream_handshake(endpoint, t).subscribed,
                invalid |-> verify_token(t) = NoResp,
                revoked |-> t \in revoked /\ redisUp,
                inactive |-> /\ verify_token(t) # NoResp
                             /\ ~userActive[verify_token(t).sub]]
    /\ UNCHANGED <<clock, tokens, blacklist, redisUp, userActive, revoked>>
    /\ UNCHANGED nonAuth

\* A call of a reading method of the blacklist service for token t or for
\* its subject
BlacklistRead(method, t) ==
    /\ t \in 1..Len(tokens)
    /\ resp' = [endpoint |-> "token_blacklist", method |-> method,
                up |-> redisUp,
                result |-> IF method = "is_token_revoked"
                           THEN is_token_revoked(t)
                           ELSE is_user_tokens_revoked(tokens[t].sub),
                stored |-> FALSE,
                was_revoked |-> t \in revoked]
    /\ UNCHANGED <<clock, tokens, blacklist, redisUp, userActive, revoked>>
    /\ UNCHANGED nonAuth

\* A call of a writing method of the blacklist service for an unexpired
\* token t or for its subject
BlacklistWrite(method, t) ==
    /\ t \in 1..Len(tokens)
    /\ tokens[t].exp - clock > 0
    /\ blacklist' = IF method = "revoke_token"
                    THEN revoke_token(t, tokens[t].exp - clock)
                    ELSE revoke_all_user_tokens(tokens[t].sub)
    /\ revoked' =
          IF ~redisUp THEN revoked
          ELSE IF method = "revoke_token" THEN revoked \cup {t}
          ELSE revoked \cup {x \in 1..Len(tokens) :
                                 /\ tokens[x].sub = tokens[t].sub
                                 /\ clock < tokens[x].exp}
    /\ resp' = [endpoint |-> "token_blacklist", method |-> method,
                up |-> redisUp, result |-> revoke_returns,
                stored |-> blacklist' # blacklist,
                was_revoked |-> t \in revoked]
    /\ UNCHANGED <<clock, tokens, redisUp, userActive>>
    /\ UNCHANGED nonAuth

\* Time passes; Redis drops the keys whose TTL has run out
Tick ==
    /\ clock < MaxClock
    /\ clock' = clock + 1
    /\ blacklist' = [k \in {x \in DOMAIN blacklist : blacklist[x] > clock + 1}
                        |-> blacklist[k]]
    /\ UNCHANGED <<tokens, redisUp, userActive, resp, revoked>>
    /\ UNCHANGED nonAuth

\* The blacklist store becomes unreachable, or reachable again
RedisToggle ==
    /\ redisUp' = ~redisUp
    /\ UNCHANGED <<clock, tokens, blacklist, userActive, resp, revoked>>
    /\ UNCHANGED nonAuth

\* An account is deactivated
DeactivateUser(u) ==
    /\ userActive[u]
    /\ userActive' = [userActive EXCEPT ![u] = FALSE]
    /\ UNCHANGED <<clock, tokens, blacklist, redisUp, resp, revoked>>
    /\ UNCHANGED nonAuth

ANext ==
    \/ \E u \in Users : Login(u)
    \/ \E t \in Bearers : GetMe(t)
    \/ \E t \in Bearers : Logout(t)
    \/ \E u \in Users : RevokeAllUserTokens(u)
    \/ \E t \in Bearers : WsConnect(t)
    \/ \E endpoint \in StreamEndpoints, t \in Bearers :
          StreamConnect(endpoint, t)
    \/ Tick
    \/ RedisToggle
    \/ \E u \in Users : DeactivateUser(u)

\* The blacklist service called directly, beside login and logout
ABlacklistNext ==
    \/ \E u \in Users : Login(u)
    \/ \E t \in Bearers : Logout(t)
    \/ \E method \in BlacklistReads, t \in Bearers : BlacklistRead(method, t)
    \/ \E method \in BlacklistWrites, t \in Bearers :
          BlacklistWrite(method, t)
    \/ Tick
    \/ RedisToggle

\* ---------------------------------------------------------------------------
\* Claims about the token authority
\* ---------------------------------------------------------------------------

\* C7: a token revoked before its expiry (by a logout carrying it, or by the
\* mass revocation of its subject) is answered 401 by GET /auth/me whenever
\* the blacklist store is reachable.
C7_RevokedTokenRejected ==
    (resp # NoResp /\ resp.endpoint = "/auth/me" /\ resp.revoked) =>
        resp.code = 401

\* C19: on each of the three streaming routes a handshake whose token is
\* invalid, expired or revoked, or whose user is inactive, is closed with
\* code 1008 and is neither registered in the connection registry nor
\* subscribed to the event bus.
C19_BadHandshakeClosed ==
    (/\ resp # NoResp
     /\ resp.endpoint \in StreamEndpoints
     /\ (resp.invalid \/ resp.revoked \/ resp.inactive)) =>
        /\ resp.code = 1008
        /\ ~resp.registered
        /\ ~resp.subscribed

\* C20: when the blacklist store is unreachable or not connected, the reads
\* is_token_revoked and is_user_tokens_revoked answer "not revoked", and
\* the writes revoke_token and revoke_all_user_tokens return failure and
\* store nothing.
C20_ReadsFailOpenWritesFail ==
    (/\ resp # NoResp
     /\ resp.endpoint = "token_blacklist"
     /\ ~resp.up) =>
        /\ resp.result = FALSE
        /\ ~resp.stored

\* Witness of C20: a token that was revoked while the store answered is
\* reported as not revoked by is_token_revoked once the store is down
C20_Witness ==
    /\ resp # NoResp
    /\ resp.endpoint = "token_blacklist"
    /\ resp.method = "is_token_revoked"
    /\ resp.was_revoked
    /\ ~resp.up
    /\ resp.result = FALSE

\* ---------------------------------------------------------------------------
\* Rate limiter: middleware/rate_limit.py
\* ---------------------------------------------------------------------------

\* What the actions of the rate limiter leave alone
nonRate ==
    <<qvars, bvars, avars, cvars, evars, gvars, wvars, kvars, fvars, svars,
      lvars, dvars, tvars>>

\* refill_rate = requests_per_minute / 60.0 tokens per second
SecondsPerMinute == 60

\* RateLimitMiddleware.cleanup_interval
CleanupInterval == 300

\* _cleanup_buckets: a bucket idle for more than this many seconds goes
BucketIdleSeconds == 600

\* Seconds between two instants of the clock
TickSeconds == SecondsPerMinute \div WindowTicks

\* Client addresses
Clients == {"ip1"}

\* Request paths: one that bypasses the limiter, one that does not
Paths == {"/health", "/api/v1/projects"}

\* Token counts are kept in sixtieths, so that a refill of
\* time_passed * refill_rate is a whole number
Scale == SecondsPerMinute

\* TokenBucket.__init__ with capacity = requests_per_minute
NewBucket == [tokens |-> RequestsPerMinute * Scale, age |-> 0]

\* TokenBucket.consume with a refill that is not capped at the capacity
refill_uncapped(b) ==
    b.tokens + b.age * RequestsPerMinute

\* TokenBucket.consume, the refill: min(capacity, tokens + time_passed * rate)
Refilled(b) ==
    Min2(RequestsPerMinute * Scale, b.tokens + b.age * RequestsPerMinute)

\* TokenBucket.consume admits when a whole token is there
CanConsume(b) == Refilled(b) >= Scale

\* consume that refills and takes no token
consume_without_decrement(b) ==
    [tokens |-> Refilled(b), age |-> 0]

\* TokenBucket.consume: the bucket after the call
consume(b) ==
    [tokens |-> IF CanConsume(b) THEN Refilled(b) - Scale ELSE Refilled(b),
     age |-> 0]

\* RateLimitMiddleware._cleanup_buckets: the map after the sweep
cleanup_buckets(m) ==
    [ip \in {c \in DOMAIN m :
                ~(/\ m[c].tokens >= (RequestsPerMinute - 1) * Scale
                  /\ m[c].age > BucketIdleSeconds)} |-> m[ip]]

\* dispatch: the map after the periodic sweep, if it is due
AfterSweep ==
    IF sinceCleanup > CleanupInterval THEN cleanup_buckets(buckets)
    ELSE buckets

\* dispatch: self.buckets[client_ip] of a defaultdict
BucketOf(m, ip) == IF ip \in DOMAIN m THEN m[ip] ELSE NewBucket

RInit ==
    /\ buckets = <<>>
    /\ sinceCleanup = 0
    /\ admits = [ip \in Clients |-> [i \in 1..(WindowTicks + 1) |-> 0]]
    /\ lastStatus = 0

\* RateLimitMiddleware.dispatch for a request of client ip on a path
Dispatch(ip, path) ==
    IF path = "/health"
    THEN /\ lastStatus' = 200
         /\ UNCHANGED <<buckets, sinceCleanup, admits>>
         /\ UNCHANGED nonRate
    ELSE LET swept == AfterSweep
             b == BucketOf(swept, ip)
         IN /\ sinceCleanup' =
                   IF sinceCleanup > CleanupInterval THEN 0 ELSE sinceCleanup
            /\ buckets' = [c \in DOMAIN swept \cup {ip} |->
                              IF c = ip THEN consume(b) ELSE swept[c]]
            /\ IF CanConsume(b)
               THEN /\ admits' = [admits EXCEPT
                                     ![ip][WindowTicks + 1] = @ + 1]
                    /\ lastStatus' = 200
               ELSE /\ lastStatus' = 429
                    /\ UNCHANGED admits
            /\ UNCHANGED nonRate

\* time.time() moves on by TickSeconds
RTick ==
    /\ buckets' = [ip \in DOMAIN buckets |->
                      [buckets[ip] EXCEPT
                          !.age = Min2(@ + TickSeconds,
                                       BucketIdleSeconds + TickSeconds)]]
    /\ sinceCleanup' = Min2(sinceCleanup + TickSeconds,
                            CleanupInterval + TickSeconds)
    /\ admits' = [ip \in Clients |->
                     [i \in 1..(WindowTicks + 1) |->
                         IF i <= WindowTicks THEN admits[ip][i + 1] ELSE 0]]
    /\ UNCHANGED lastStatus
    /\ UNCHANGED nonRate

RNext ==
    \/ \E ip \in Clients, path \in Paths : Dispatch(ip, path)
    \/ RTick

\* ---------------------------------------------------------------------------
\* Claims about the rate limiter
\* ---------------------------------------------------------------------------

RECURSIVE SumFrom(_, _)
\* Sum of the entries i.. of a sequence of numbers
SumFrom(seq, i) == IF i > Len(seq) THEN 0 ELSE seq[i] + SumFrom(seq, i + 1)

\* Requests of ip admitted in the 60 seconds up to now, the instant exactly
\* 60 seconds ago included
AdmittedClosedWindow(ip) == SumFrom(admits[ip], 1)

\* Requests of ip admitted in the 60 seconds up to now, the instant exactly
\* 60 seconds ago left out
AdmittedOpenWindow(ip) == SumFrom(admits[ip], 2)

SweepClients == {"ip1", "ip2"}

\* RateLimitMiddleware.dispatch for a request of client ip on a limited path
DispatchFrom(ip) ==
    LET swept == AfterSweep
        b == BucketOf(swept, ip)
    IN /\ sinceCleanup' =
              IF sinceCleanup > CleanupInterval THEN 0 ELSE sinceCleanup
       /\ buckets' = [c \in DOMAIN swept \cup {ip} |->
                         IF c = ip THEN consume(b) ELSE swept[c]]
       /\ lastStatus' = IF CanConsume(b) THEN 200 ELSE 429
       /\ UNCHANGED admits
       /\ UNCHANGED nonRate

\* time.time() moves on by a whole minute
RMinute ==
    /\ buckets' = [ip \in DOMAIN buckets |->
                      [buckets[ip] EXCEPT
                          !.age = Min2(@ + SecondsPerMinute,
                                       BucketIdleSeconds
                                           + 2 * SecondsPerMinute)]]
    /\ sinceCleanup' = Min2(sinceCleanup + SecondsPerMinute,
                            CleanupInterval + SecondsPerMinute)
    /\ admits' = [ip \in Clients |-> [i \in 1..(WindowTicks + 1) |-> 0]]
    /\ UNCHANGED lastStatus
    /\ UNCHANGED nonRate

RSweepNext ==
    \/ \E ip \in SweepClients : DispatchFrom(ip)
    \/ RMinute

\* The step is a dispatch that ran _cleanup_buckets
SweepRan ==
    /\ sinceCleanup > CleanupInterval
    /\ sinceCleanup' = 0

\* The bucket, refilled to now, has been at capacity for more than
\* BucketIdleSeconds
AtCapacityLong(b) ==
    /\ b.age > BucketIdleSeconds
    /\ b.tokens + (b.age - BucketIdleSeconds) * RequestsPerMinute
           >= RequestsPerMinute * Scale

\* C35: a sweep removes every bucket that has been at capacity for more than
\* ten minutes, unless its identity sends the very request that runs the
\* sweep (so that the bucket of an identity that stopped sending goes), and a
\* sweep removes no bucket whose level, refilled to now, is below capacity.
C35_IdleBucketCollected ==
    [][SweepRan =>
          \A ip \in DOMAIN buckets :
              /\ AtCapacityLong(buckets[ip]) =>
                     \/ ip \notin DOMAIN buckets'
                     \/ buckets'[ip].age = 0
              /\ ip \notin DOMAIN buckets' =>
                     Refilled(buckets[ip]) = RequestsPerMinute * Scale]_rvars

\* C40: the token count of every bucket stays between 0 and the capacity,
\* whatever requests and clock ticks interleave.
C40_TokensWithinCapacity ==
    \A ip \in DOMAIN buckets :
        /\ buckets[ip].tokens >= 0
        /\ buckets[ip].tokens <= RequestsPerMinute * Scale

\* Witness of C40: a client has drained its bucket to zero and its latest
\* request, made in the same instant, was rejected
C40_Witness ==
    \E ip \in Clients :
        /\ ip \in DOMAIN buckets
        /\ buckets[ip].tokens = 0
        /\ buckets[ip].age = 0
        /\ lastStatus = 429

\* ---------------------------------------------------------------------------
\* Connection registry: websocket/connection_manager.py
\* ---------------------------------------------------------------------------

\* What the actions of the registry leave alone
nonRegistry ==
    <<qvars, bvars, avars, rvars, evars, gvars, wvars, kvars, fvars, svars,
      lvars, dvars, tvars>>

\* Connection ids; every handler draws a new one (uuid4) for its connect call
ConnIds == 1..MaxConns

\* Tasks that call disconnect and send_to_connection
Tasks == {"t1", "t2"}

Projects == {"p1"}

\* The connect calls of the model: user_id, project_id
ConnectCalls ==
    {<<"u1", None>>, <<"u1", "p1">>, <<"u2", "p1">>}

NoInfo == [absent |-> TRUE]

\* A defaultdict(set) read at key k
SetAt(d, k) == IF k \in DOMAIN d THEN d[k] ELSE {}

\* d[k].add(x) on a defaultdict(set)
add(d, k, x) ==
    [j \in DOMAIN d \cup {k} |-> IF j = k THEN SetAt(d, k) \cup {x} ELSE d[j]]

\* d[k].discard(x), then `if not d[k]: del d[k]`
discard(d, k, x) ==
    [j \in {i \in DOMAIN d \cup {k} : i # k \/ SetAt(d, k) \ {x} # {}} |->
        IF j = k THEN SetAt(d, k) \ {x} ELSE d[j]]

\* A disconnect that leaves the project map alone
project_kept(d, info, id) == d

\* disconnect: the project map after the removal of id
project_removed(d, info, id) ==
    IF info.project_id # None THEN discard(d, info.project_id, id) ELSE d

\* The calls that fan one message out: send_to_user(user_id, data,
\* exclude_connection_id), send_to_project(project_id, data, exclude_user_id)
\* and broadcast(data, exclude_user_id, exclude_connection_id); no
\* connection has the id 0
FanoutCalls ==
    {[op |-> "send_to_user", key |-> "u1", exclude_user_id |-> None,
      exclude_connection_id |-> 1],
     [op |-> "send_to_project", key |-> "p1", exclude_user_id |-> None,
      exclude_connection_id |-> 0],
     [op |-> "broadcast", key |-> None, exclude_user_id |-> "u2",
      exclude_connection_id |-> 0]}

FanoutOps == {c.op : c \in FanoutCalls}

NoCall == [op |-> "none", rest |-> {}]

CInit ==
    /\ connections = <<>>
    /\ user_connections = <<>>
    /\ project_connections = <<>>
    /\ connecting = <<>>
    /\ tpc = [t \in Tasks |-> "idle"]
    /\ tid = [t \in Tasks |-> 0]
    /\ tinfo = [t \in Tasks |-> NoInfo]
    /\ usedIds = {}
    /\ gone = {}
    /\ tcall = [t \in Tasks |-> NoCall]
    /\ failed = {}

\* connect up to `await websocket.accept()`, called with a new id
ConnectBegin(id, user_id, project_id) ==
    /\ id \notin usedIds
    /\ id \notin DOMAIN connections
    /\ usedIds' = usedIds \cup {id}
    /\ connecting' = [j \in DOMAIN connecting \cup {id} |->
                         IF j = id
                         THEN [user_id |-> user_id, project_id |-> project_id]
                         ELSE connecting[j]]
    /\ UNCHANGED <<connections, user_connections, project_connections, tpc,
                   tid, tinfo, gone, tcall, failed>>
    /\ UNCHANGED nonRegistry

\* connect after the accept: the id enters the three maps
ConnectFinish(id) ==
    /\ id \in DOMAIN connecting
    /\ LET info == connecting[id]
       IN /\ connections' = [j \in DOMAIN connections \cup {id} |->
                                IF j = id THEN info ELSE connections[j]]
          /\ user_connections' = add(user_connections, info.user_id, id)
          /\ project_connections' =
                IF info.project_id # None
                THEN add(project_connections, info.project_id, id)
                ELSE project_connections
    /\ connecting' = [j \in DOMAIN connecting \ {id} |-> connecting[j]]
    /\ gone' = gone \ {id}
    /\ UNCHANGED <<tpc, tid, tinfo, usedIds, tcall, failed>>
    /\ UNCHANGED nonRegistry

\* connect: websocket.accept() raises, nothing is registered
ConnectFail(id) ==
    /\ id \in DOMAIN connecting
    /\ connecting' = [j \in DOMAIN connecting \ {id} |-> connecting[j]]
    /\ UNCHANGED <<connections, user_connections, project_connections, tpc,
                   tid, tinfo, usedIds, gone, tcall, failed>>
    /\ UNCHANGED nonRegistry

\* The call of task t is over
TaskIdle(t) ==
    /\ tpc' = [tpc EXCEPT ![t] = "idle"]
    /\ tid' = [tid EXCEPT ![t] = 0]
    /\ tinfo' = [tinfo EXCEPT ![t] = NoInfo]
    /\ tcall' = [tcall EXCEPT ![t] = NoCall]

\* The loop of a fan-out from its current position to its next await, over
\* the map conns: the ids of its copy that are registered no more make
\* send_to_connection return False at once; the loop stops in the send_json
\* of the first registered id it meets (a set is visited in any order), and
\* the call returns when none is left
FanoutAdvance(t, call, conns) ==
    LET live == call.rest \cap DOMAIN conns
    IN IF live = {}
       THEN TaskIdle(t)
       ELSE \E id \in live :
               /\ tpc' = [tpc EXCEPT ![t] = "sending"]
               /\ tid' = [tid EXCEPT ![t] = id]
               /\ tinfo' = [tinfo EXCEPT ![t] = conns[id]]
               /\ tcall' = [tcall EXCEPT ![t] =
                               [call EXCEPT !.rest = call.rest \ {id}]]

\* send_to_connection has returned to the call of task t
TaskReturn(t, call, conns) ==
    IF call.op \in FanoutOps
    THEN FanoutAdvance(t, call, conns)
    ELSE TaskIdle(t)

\* The sends that raised and whose send_to_connection has ended, after the
\* one to id inside call has
failed_after(call, id) ==
    IF call.op = "disconnect" THEN failed
    ELSE failed \cup {<<id, call.op \in FanoutOps>>}

\* disconnect up to `await conn_info.websocket.close()`, inside the call
\* `call` of task t; an id that is not registered makes it return False at once
EnterDisconnect(t, id, call) ==
    IF id \in DOMAIN connections
    THEN /\ tpc' = [tpc EXCEPT ![t] = "closing"]
         /\ tid' = [tid EXCEPT ![t] = id]
         /\ tinfo' = [tinfo EXCEPT ![t] = connections[id]]
         /\ tcall' = [tcall EXCEPT ![t] = call]
         /\ UNCHANGED <<gone, failed>>
    ELSE /\ TaskReturn(t, call, connections)
         /\ gone' = gone \cup {id}
         /\ failed' = failed_after(call, id)

\* A call of disconnect(id) by task t
DisconnectBegin(t, id) ==
    /\ tpc[t] = "idle"
    /\ id \in usedIds
    /\ EnterDisconnect(t, id, [op |-> "disconnect", rest |-> {}])
    /\ UNCHANGED <<connections, user_connections, project_connections,
                   connecting, usedIds>>
    /\ UNCHANGED nonRegistry

\* disconnect after the close: the id leaves the three maps; when another
\* disconnect took it out meanwhile, `del self.connections[id]` raises
\* KeyError, nothing changes and the exception ends the call of the task
DisconnectFinish(t) ==
    /\ tpc[t] = "closing"
    /\ IF tid[t] \in DOMAIN connections
       THEN /\ connections' =
                  [j \in DOMAIN connections \ {tid[t]} |-> connections[j]]
            /\ user_connections' =
                  discard(user_connections, tinfo[t].user_id, tid[t])
            /\ project_connections' =
                  project_removed(project_connections, tinfo[t], tid[t])
            /\ gone' = gone \cup {tid[t]}
            /\ TaskReturn(t, tcall[t], connections')
       ELSE /\ UNCHANGED <<connections, user_connections,
                           project_connections, gone>>
            /\ TaskIdle(t)
    /\ failed' = failed_after(tcall[t], tid[t])
    /\ UNCHANGED <<connecting, usedIds>>
    /\ UNCHANGED nonRegistry

\* send_to_connection up to `await websocket.send_json(data)`, for a
\* registered id (for any other id it returns False at once)
SendBegin(t, id) ==
    /\ tpc[t] = "idle"
    /\ id \in DOMAIN connections
    /\ tpc' = [tpc EXCEPT ![t] = "sending"]
    /\ tid' = [tid EXCEPT ![t] = id]
    /\ tinfo' = [tinfo EXCEPT ![t] = connections[id]]
    /\ tcall' = [tcall EXCEPT ![t] = [op |-> "send_to_connection",
                                      rest |-> {}]]
    /\ UNCHANGED <<connections, user_connections, project_connections,
                   connecting, usedIds, gone, failed>>
    /\ UNCHANGED nonRegistry

\* The ids a fan-out copies before its loop, less the ones its loop skips
\* without a send: the excluded connection, the connections of the excluded
\* user
fanout_targets(call) ==
    LET ids == IF call.op = "send_to_user"
               THEN SetAt(user_connections, call.key)
               ELSE IF call.op = "send_to_project"
                    THEN SetAt(project_connections, call.key)
                    ELSE DOMAIN connections
    IN {id \in ids :
           /\ id # call.exclude_connection_id
           /\ \/ call.exclude_user_id = None
              \/ id \notin DOMAIN connections
              \/ connections[id].user_id # call.exclude_user_id}

\* send_to_user, send_to_project or broadcast up to its first await
FanoutBegin(t, call) ==
    /\ tpc[t] = "idle"
    /\ fanout_targets(call) # {}
    /\ FanoutAdvance(t, [op |-> call.op, rest |-> fanout_targets(call)],
                     connections)
    /\ UNCHANGED <<connections, user_connections, project_connections,
                   connecting, usedIds, gone, failed>>
    /\ UNCHANGED nonRegistry

\* A send that raised and is only logged
on_send_error_logged(t, id) ==
    /\ TaskReturn(t, tcall[t], connections)
    /\ gone' = gone
    /\ failed' = failed_after(tcall[t], id)

\* send_to_connection, the except branch: `await self.disconnect(id)`
on_send_error(t, id) ==
    EnterDisconnect(t, id, tcall[t])

\* send_to_connection after the send: done, or on an exception a call of
\* disconnect(id)
SendFinish(t, sent) ==
    /\ tpc[t] = "sending"
    /\ IF sent
       THEN /\ TaskReturn(t, tcall[t], connections)
            /\ UNCHANGED <<gone, failed>>
       ELSE on_send_error(t, tid[t])
    /\ UNCHANGED <<connections, user_connections, project_connections,
                   connecting, usedIds>>
    /\ UNCHANGED nonRegistry

CNext ==
    \/ \E id \in ConnIds, c \in ConnectCalls : ConnectBegin(id, c[1], c[2])
    \/ \E id \in ConnIds : ConnectFinish(id)
    \/ \E id \in ConnIds : ConnectFail(id)
    \/ \E t \in Tasks, id \in ConnIds : DisconnectBegin(t, id)
    \/ \E t \in Tasks : DisconnectFinish(t)
    \/ \E t \in Tasks, id \in ConnIds : SendBegin(t, id)
    \/ \E t \in Tasks, call \in FanoutCalls : FanoutBegin(t, call)
    \/ \E t \in Tasks, sent \in BOOLEAN : SendFinish(t, sent)

\* ---------------------------------------------------------------------------
\* Claims about the connection registry
\* ---------------------------------------------------------------------------

\* C9: at every point of every interleaving of connect, disconnect and send
\* calls the three maps agree: an id is in the set of user u (project p)
\* exactly when the id -> ConnectionInfo map holds it with user_id u
\* (project_id p); and an id whose disconnect has returned is in none of them.
C9_MapsAgree ==
    /\ \A id \in ConnIds : \A u \in Users :
          id \in SetAt(user_connections, u) <=>
              (id \in DOMAIN connections /\ connections[id].user_id = u)
    /\ \A id \in ConnIds : \A p \in Projects :
          id \in SetAt(project_connections, p) <=>
              (id \in DOMAIN connections /\ connections[id].project_id = p)
    /\ DOMAIN user_connections \subseteq Users
    /\ DOMAIN project_connections \subseteq Projects
    /\ \A id \in gone :
          /\ id \notin DOMAIN connections
          /\ \A u \in DOMAIN user_connections : id \notin user_connections[u]
          /\ \A p \in DOMAIN project_connections :
                id \notin project_connections[p]

\* Witness of C9: one connection of a project was disconnected while another
\* connection of the same project stays registered
C9_Witness ==
    \E id \in gone : \E other \in DOMAIN connections :
        /\ other # id
        /\ connections[other].project_id = "p1"
        /\ other \in SetAt(project_connections, "p1")
        /\ other \in SetAt(user_connections, connections[other].user_id)
        /\ \E t \in Tasks : tpc[t] = "closing" /\ tid[t] = other

\* C21: a send to a connection that raised, in a direct send_to_connection
\* or inside a send_to_user, send_to_project or broadcast, has disconnected
\* the connection by the time send_to_connection ends: the id is in none of
\* the three maps.
C21_FailedSendDisconnects ==
    \A f \in failed :
        /\ f[1] \notin DOMAIN connections
        /\ \A u \in DOMAIN user_connections : f[1] \notin user_connections[u]
        /\ \A p \in DOMAIN project_connections :
              f[1] \notin project_connections[p]

\* Witness of C21: a send raised inside a fan-out while another connection
\* of project p1 stays registered, and a direct send raised as well
C21_Witness ==
    /\ \E f \in failed : \E other \in DOMAIN connections :
          /\ f[2]
          /\ other # f[1]
          /\ other \in SetAt(project_connections, "p1")
    /\ \E f \in failed : ~f[2]

\* The disconnect that task t is in has closed the socket of a connection
\* that another disconnect has removed meanwhile: its `del
\* self.connections[connection_id]` raises KeyError
DelRaisesKeyError(t) ==
    /\ tpc[t] = "closing"
    /\ tid[t] \notin DOMAIN connections

\* C34: a fan-out by user, by project or by broadcast works on a copy of the
\* target ids: no connect or disconnect that happens while it is under way,
\* the disconnects after its own failed sends included, makes it raise, and
\* it does not end before it has sent to every connection of its copy that
\* is still registered.
C34_FanoutSnapshotNeverRaises ==
    /\ [](\A t \in Tasks :
             tcall[t].op \in FanoutOps => ~DelRaisesKeyError(t))
    /\ [][\A t \in Tasks :
             (tcall[t].op \in FanoutOps /\ tcall'[t] = NoCall) =>
                 tcall[t].rest \cap DOMAIN connections' = {}]_cvars

\* C39: when disconnect(id) runs in several tasks at once for one id, one
\* of the calls removes the connection and returns True and every other
\* returns False: none comes back from its close to a connection that is
\* gone and raises.
C39_ConcurrentDisconnectOnce ==
    \A t \in Tasks : ~DelRaisesKeyError(t)

\* ---------------------------------------------------------------------------
\* Execution records: models/execution.py, agent_manager.py,
\* message_handler.py
\* ---------------------------------------------------------------------------

\* What the actions on execution records leave alone
nonExec ==
    <<qvars, bvars, avars, rvars, cvars, gvars, wvars, kvars, fvars, svars,
      lvars, dvars, tvars>>

ExecIds == 1..MaxExecutions

\* class ExecutionStatus
ExecutionStatus ==
    {"pending", "running", "paused", "completed", "failed", "cancelled",
     "timeout"}

\* Execution.CANCELLABLE_STATUSES
CANCELLABLE_STATUSES == {"pending", "running", "paused"}

\* Execution.FINISHED_STATUSES
FINISHED_STATUSES == {"completed", "failed", "cancelled", "timeout"}

\* A timestamp column that is NULL; the clock starts at 1
Null == 0

\* duration_seconds when it is NULL; a duration is 0 or more
NoDuration == -1

\* Execution(status=PENDING) as _handle_start_agent and create_execution
\* build it and flush it at the instant now: started_at takes its column
\* default, the time of the insert; completed_at and duration_seconds are
\* NULL
NewExecution(now) ==
    [status |-> "pending", started_at |-> now, completed_at |-> Null,
     duration_seconds |-> NoDuration, retry_count |-> 0,
     max_retries |-> MaxRetries]

\* Execution._calculate_duration
calculate_duration(x) ==
    IF x.started_at # Null /\ x.completed_at # Null
    THEN [x EXCEPT !.duration_seconds = x.completed_at - x.started_at]
    ELSE x

\* Execution.start
ex_start(x, now) ==
    IF x.status = "pending"
    THEN [x EXCEPT !.status = "running", !.started_at = now]
    ELSE x

\* Execution.complete
ex_complete(x, now) ==
    calculate_duration([x EXCEPT !.status = "completed",
                                 !.completed_at = now])

\* Execution.fail
ex_fail(x, now) ==
    calculate_duration([x EXCEPT !.status = "failed", !.completed_at = now])

\* Execution.pause
ex_pause(x) ==
    IF x.status = "running" THEN [x EXCEPT !.status = "paused"] ELSE x

\* Execution.resume
ex_resume(x) ==
    IF x.status = "paused" THEN [x EXCEPT !.status = "running"] ELSE x

\* Execution.cancel
ex_cancel(x, now) ==
    IF x.status \in CANCELLABLE_STATUSES
    THEN calculate_duration([x EXCEPT !.status = "cancelled",
                                      !.completed_at = now])
    ELSE x

\* Execution.timeout
ex_timeout(x, now) ==
    calculate_duration([x EXCEPT !.status = "timeout", !.completed_at = now])

\* A retry whatever the count
ex_can_retry_always(x) == TRUE

\* Execution.can_retry
ex_can_retry(x) == x.retry_count < x.max_retries

\* Execution.increment_retry
ex_increment_retry(x) == [x EXCEPT !.retry_count = @ + 1]

EInit ==
    /\ executions = <<>>
    /\ enow = 1

\* The clock of the execution records advances
ETick ==
    /\ enow < MaxExecClock
    /\ enow' = enow + 1
    /\ UNCHANGED executions
    /\ UNCHANGED nonExec

\* MessageHandler._handle_start_agent for a project of the caller: the
\* Execution is built, added and flushed (AgentManager.create_execution
\* builds and commits the same record)
CreateExecution ==
    /\ Len(executions) < MaxExecutions
    /\ executions' = Append(executions, NewExecution(enow))
    /\ UNCHANGED enow
    /\ UNCHANGED nonExec

\* A call of one of the methods of the Execution model on a record
ModelMethod(e, method) ==
    /\ e \in DOMAIN executions
    /\ executions' = [executions EXCEPT ![e] =
          CASE method = "start" -> ex_start(@, enow)
            [] method = "complete" -> ex_complete(@, enow)
            [] method = "fail" -> ex_fail(@, enow)
            [] method = "pause" -> ex_pause(@)
            [] method = "resume" -> ex_resume(@)
            [] method = "timeout" -> ex_timeout(@, enow)]
    /\ UNCHANGED enow
    /\ UNCHANGED nonExec

\* AgentManager.cancel_execution: Execution.cancel and the commit
CancelExecution(e) ==
    /\ e \in DOMAIN executions
    /\ executions' = [executions EXCEPT ![e] = ex_cancel(@, enow)]
    /\ UNCHANGED enow
    /\ UNCHANGED nonExec

\* AgentManager.retry_execution: it returns False when ex_can_retry() does not
\* hold, else increment_retry, status PENDING and the commit
RetryExecution(e) ==
    /\ e \in DOMAIN executions
    /\ executions' = [executions EXCEPT ![e] =
          IF ex_can_retry(@)
          THEN [ex_increment_retry(@) EXCEPT !.status = "pending"]
          ELSE @]
    /\ UNCHANGED enow
    /\ UNCHANGED nonExec

\* MessageHandler._handle_cancel_execution for an execution of the caller
HandleCancelExecution(e) ==
    /\ e \in DOMAIN executions
    /\ executions' = [executions EXCEPT ![e].status = "cancelled"]
    /\ UNCHANGED enow
    /\ UNCHANGED nonExec

\* MessageHandler._handle_pause_execution for an execution of the caller
HandlePauseExecution(e) ==
    /\ e \in DOMAIN executions
    /\ executions[e].status \in {"running", "pending"}
    /\ executions' = [executions EXCEPT ![e].status = "paused"]
    /\ UNCHANGED enow
    /\ UNCHANGED nonExec

\* MessageHandler._handle_resume_execution for an execution of the caller
HandleResumeExecution(e) ==
    /\ e \in DOMAIN executions
    /\ executions[e].status = "paused"
    /\ executions' = [executions EXCEPT ![e].status = "running"]
    /\ UNCHANGED enow
    /\ UNCHANGED nonExec

ModelMethods == {"start", "complete", "fail", "pause", "resume", "timeout"}

ENext ==
    \/ ETick
    \/ CreateExecution
    \/ \E e \in ExecIds, m \in ModelMethods : ModelMethod(e, m)
    \/ \E e \in ExecIds : CancelExecution(e)
    \/ \E e \in ExecIds : RetryExecution(e)
    \/ \E e \in ExecIds : HandleCancelExecution(e)
    \/ \E e \in ExecIds : HandlePauseExecution(e)
    \/ \E e \in ExecIds : HandleResumeExecution(e)

\* ---------------------------------------------------------------------------
\* Claims about execution records
\* ---------------------------------------------------------------------------

\* C10: at every instant and for every execution, completed_at is set exactly
\* when the status is one of completed, failed, cancelled, timeout.
C10_CompletedAtIffFinished ==
    \A e \in DOMAIN executions :
        executions[e].completed_at # Null <=>
            executions[e].status \in FINISHED_STATUSES

\* One step leaves a finished status alone, or is the retry of a failed one
TerminalKept(e) ==
    executions[e].status \in FINISHED_STATUSES =>
        \/ executions'[e].status = executions[e].status
        \/ /\ executions[e].status = "failed"
           /\ executions'[e].status = "pending"

\* C11: completed, cancelled, failed and timeout are terminal: no command
\* and no driver step changes the status of an execution that is in one of
\* them, except the retry of a failed execution, which makes it pending.
C11_TerminalStatusesStay ==
    [][\A e \in DOMAIN executions : TerminalKept(e)]_evars

\* C25: for every execution, retry_count <= max_retries after any sequence
\* of failures, retries and other operations on the record.
C25_RetryCountBounded ==
    \A e \in DOMAIN executions :
        executions[e].retry_count <= executions[e].max_retries

\* Witness of C25: an execution has failed again after its last allowed
\* retry: the count is at max_retries and a further retry is refused
C25_Witness ==
    \E e \in DOMAIN executions :
        /\ executions[e].status = "failed"
        /\ executions[e].retry_count = executions[e].max_retries
        /\ executions[e].completed_at # Null
        /\ ~ex_can_retry(executions[e])

\* C26: for every execution, duration_seconds is set exactly when
\* completed_at is set, and is then completed_at minus started_at.
C26_DurationIffCompleted ==
    \A e \in DOMAIN executions :
        /\ executions[e].duration_seconds # NoDuration <=>
              executions[e].completed_at # Null
        /\ executions[e].completed_at # Null =>
              executions[e].duration_seconds =
                  executions[e].completed_at - executions[e].started_at

\* ===========================================================================
\* AGENT CONFIGURATIONS  (backend/app/services/agent_service.py)
\* Every request has a database session of its own (get_db); a coroutine is
\* cut at its awaits: every execute and every commit is one step.  The
\* session factory has expire_on_commit=False, so a row a session has loaded
\* keeps the value it was loaded with, and an UPDATE is sent only for an
\* attribute whose value changed in the session.
\* ===========================================================================
nonAgent ==
    <<qvars, bvars, avars, rvars, cvars, evars, wvars, kvars, fvars, svars,
      lvars, dvars, tvars>>

Requests == {1, 2}
AgentUsers == {"u1", "u2"}
\* two members of class AgentRole
AgentRoles == {"engineer", "architect"}
ConfigIds == 1..MaxConfigs

\* No operation in flight
NoSession ==
    [pc |-> "idle", op |-> None, user_id |-> None, agent_role |-> None,
     is_default |-> FALSE, config |-> 0, config_seen |-> FALSE,
     default_config |-> 0, default_seen |-> FALSE]

\* AgentConfig(user_id=..., agent_role=..., is_default=...)
AgentConfig(user_id, agent_role, is_default) ==
    [user_id |-> user_id, agent_role |-> agent_role,
     is_default |-> is_default]

\* select(AgentConfig).where(id == config_id, user_id == user_id)
OwnedConfig(config_id, user_id) ==
    /\ config_id \in DOMAIN agent_configs
    /\ agent_configs[config_id].user_id = user_id

\* _unset_default_for_role: the rows its select returns
DefaultRows(user_id, agent_role) ==
    {c \in DOMAIN agent_configs :
        /\ agent_configs[c].user_id = user_id
        /\ agent_configs[c].agent_role = agent_role
        /\ agent_configs[c].is_default}

\* Requests on their way to db.add of a new row
Inserting == {r \in Requests : sess[r].op \in {"create", "clone"}}

\* The UPDATE a commit sends for is_default, if the session changed it
Flush(rows, c, seen, value) ==
    IF seen = value THEN rows ELSE [rows EXCEPT ![c].is_default = value]

GInit ==
    /\ agent_configs = <<>>
    /\ sess = [r \in Requests |-> NoSession]

\* create_agent_config up to its first await
CreateBegin(r, user_id, agent_role, is_default) ==
    /\ sess[r].pc = "idle"
    /\ Len(agent_configs) + Cardinality(Inserting) < MaxConfigs
    /\ sess' = [sess EXCEPT ![r] =
          [NoSession EXCEPT !.op = "create", !.user_id = user_id,
              !.agent_role = agent_role, !.is_default = is_default,
              !.pc = IF is_default THEN "unset_select" ELSE "insert"]]
    /\ UNCHANGED agent_configs
    /\ UNCHANGED nonAgent

\* update_agent_config with is_default in the update: the select of the row
UpdateBegin(r, config_id, user_id, is_default) ==
    /\ sess[r].pc = "idle"
    /\ IF OwnedConfig(config_id, user_id)
       THEN sess' = [sess EXCEPT ![r] =
              [NoSession EXCEPT !.op = "update", !.user_id = user_id,
                  !.agent_role = agent_configs[config_id].agent_role,
                  !.is_default = is_default, !.config = config_id,
                  !.config_seen = agent_configs[config_id].is_default,
                  !.pc = IF is_default THEN "unset_select" ELSE "write"]]
       ELSE UNCHANGED sess
    /\ UNCHANGED agent_configs
    /\ UNCHANGED nonAgent

\* set_default_config: the select of the row
SetDefaultBegin(r, config_id, user_id) ==
    /\ sess[r].pc = "idle"
    /\ IF OwnedConfig(config_id, user_id)
       THEN sess' = [sess EXCEPT ![r] =
              [NoSession EXCEPT !.op = "set_default", !.user_id = user_id,
                  !.agent_role = agent_configs[config_id].agent_role,
                  !.is_default = TRUE, !.config = config_id,
                  !.config_seen = agent_configs[config_id].is_default,
                  !.pc = "unset_select"]]
       ELSE UNCHANGED sess
    /\ UNCHANGED agent_configs
    /\ UNCHANGED nonAgent

\* clone_config: the select of the source row and AgentConfig.clone, which
\* builds the copy with is_default=False
CloneBegin(r, config_id, source_user_id, target_user_id, target_agent_role) ==
    /\ sess[r].pc = "idle"
    /\ Len(agent_configs) + Cardinality(Inserting) < MaxConfigs
    /\ IF OwnedConfig(config_id, source_user_id)
       THEN sess' = [sess EXCEPT ![r] =
              [NoSession EXCEPT !.op = "clone", !.user_id = target_user_id,
                  !.agent_role =
                      IF target_agent_role = None
                      THEN agent_configs[config_id].agent_role
                      ELSE target_agent_role,
                  !.is_default = FALSE, !.pc = "insert"]]
       ELSE UNCHANGED sess
    /\ UNCHANGED agent_configs
    /\ UNCHANGED nonAgent

\* Where an operation goes on after _unset_default_for_role
AfterUnset(s) == IF s.op = "create" THEN "insert" ELSE "write"

\* _unset_default_for_role: the select and scalar_one_or_none, which raises
\* when the select returns several rows; a row the session already holds is
\* not refreshed
UnsetSelect(r) ==
    LET s == sess[r]
        rows == DefaultRows(s.user_id, s.agent_role)
    IN  /\ s.pc = "unset_select"
        /\ sess' = [sess EXCEPT ![r] =
              IF Cardinality(rows) > 1 THEN NoSession
              ELSE IF rows = {} THEN [s EXCEPT !.pc = AfterUnset(s)]
              ELSE LET d == CHOOSE c \in rows : TRUE
                   IN  [s EXCEPT !.default_config = d,
                           !.default_seen =
                               IF d = s.config THEN s.config_seen ELSE TRUE,
                           !.pc = "unset_commit"]]
        /\ UNCHANGED agent_configs
        /\ UNCHANGED nonAgent

\* _unset_default_for_role: unset_as_default and the commit
UnsetCommit(r) ==
    LET s == sess[r]
    IN  /\ s.pc = "unset_commit"
        /\ agent_configs' =
              Flush(agent_configs, s.default_config, s.default_seen, FALSE)
        /\ sess' = [sess EXCEPT ![r] =
              [s EXCEPT !.pc = AfterUnset(s),
                  !.config_seen = IF s.default_config = s.config
                                  THEN FALSE ELSE @]]
        /\ UNCHANGED nonAgent

\* update_agent_config, set_default_config: the assignment of is_default
\* and the commit
WriteDefault(r) ==
    LET s == sess[r]
    IN  /\ s.pc = "write"
        /\ agent_configs' =
              Flush(agent_configs, s.config, s.config_seen, s.is_default)
        /\ sess' = [sess EXCEPT ![r] = NoSession]
        /\ UNCHANGED nonAgent

\* create_agent_config, clone_config: db.add of the new row and the commit
InsertConfig(r) ==
    LET s == sess[r]
    IN  /\ s.pc = "insert"
        /\ agent_configs' =
              Append(agent_configs,
                     AgentConfig(s.user_id, s.agent_role, s.is_default))
        /\ sess' = [sess EXCEPT ![r] = NoSession]
        /\ UNCHANGED nonAgent

GNext ==
    \/ \E r \in Requests, u \in AgentUsers, role \in AgentRoles,
          d \in BOOLEAN : CreateBegin(r, u, role, d)
    \/ \E r \in Requests, c \in ConfigIds, u \in AgentUsers,
          d \in BOOLEAN : UpdateBegin(r, c, u, d)
    \/ \E r \in Requests, c \in ConfigIds, u \in AgentUsers :
          SetDefaultBegin(r, c, u)
    \/ \E r \in Requests, c \in ConfigIds, u \in AgentUsers,
          t \in AgentUsers, role \in AgentRoles \cup {None} :
          CloneBegin(r, c, u, t, role)
    \/ \E r \in Requests : UnsetSelect(r)
    \/ \E r \in Requests : UnsetCommit(r)
    \/ \E r \in Requests : WriteDefault(r)
    \/ \E r \in Requests : InsertConfig(r)

\* ---------------------------------------------------------------------------
\* Claims about agent configurations
\* ---------------------------------------------------------------------------

\* C12: for every user U and role R at most one AgentConfig row with
\* user_id = U, agent_role = R and is_default = true exists at any instant,
\* whatever the interleaving of create, update, set-default and clone.
C12_AtMostOneDefault ==
    \A u \in AgentUsers, role \in AgentRoles :
        Cardinality(DefaultRows(u, role)) <= 1

\* ===========================================================================
\* WORKFLOW DRIVER  (backend/app/api/v1/projects.py execute_workflow,
\*                   backend/app/metagpt_integration/agent_manager.py)
\* ===========================================================================

\* What the actions of the workflow driver leave alone
nonWorkflow ==
    <<qvars, bvars, avars, rvars, cvars, evars, gvars, kvars, fvars, svars,
      lvars, dvars, tvars>>

WRequests == 1..MaxRequests

\* class ExecutionType
ExecutionTypes == {"full", "partial", "test", "deployment"}

\* The execution_type arguments of the model
ExecutionTypeArgs == {"full", "incremental"}

\* The stages in the order run_workflow names them, by agent role
Stages == <<"product_manager", "architect", "engineer", "qa_engineer">>

\* The argument of _update_project_progress at the end of each stage
StageProgress == <<25, 50, 75, 90>>

\* The stages whose generate call raises, per request of the model
FailingStages == {{}, {"product_manager"}, {"engineer"}}

\* The statements of the body of `async def run_workflow` of AgentManager,
\* in order, by kind
run_workflow_body ==
    <<"await", "await", "await", "yield", "yield from", "yield from",
      "yield from", "yield from", "await", "await", "await", "yield">>

\* The statements of the body of the `async def run_workflow()` that
\* execute_workflow defines and hands to asyncio.create_task
task_body == <<"await", "async for", "await", "yield", "await">>

\* What the compiler makes of an `async def` with this body: `yield from`
\* inside an async function is a SyntaxError; a body with a `yield` makes an
\* async generator function, any other body a coroutine function
compile_async_def(body) ==
    IF \E i \in DOMAIN body : body[i] = "yield from"
    THEN "SyntaxError"
    ELSE IF \E i \in DOMAIN body : body[i] = "yield"
         THEN "async generator function"
         ELSE "coroutine function"

\* `from app.metagpt_integration.agent_manager import get_agent_manager`: a
\* module is compiled as a whole before any of it runs
import_agent_manager ==
    IF compile_async_def(run_workflow_body) = "SyntaxError"
    THEN "SyntaxError"
    ELSE "module"

\* asyncio.create_task(f()) for a function f of this kind: calling an async
\* generator function gives an async generator, which create_task rejects
create_task(kind) ==
    IF kind = "coroutine function" THEN "task" ELSE "TypeError"

\* execute_workflow for an authenticated caller: the status of the response
\* and whether a background task runs the workflow.  Every exception but
\* HTTPException ends in `except Exception`, which answers 500.
execute_workflow(project_found, execution_type) ==
    IF import_agent_manager = "SyntaxError"
    THEN [status |-> 500, task |-> FALSE]
    ELSE IF ~project_found
    THEN [status |-> 404, task |-> FALSE]
    ELSE IF execution_type \notin ExecutionTypes
    THEN [status |-> 400, task |-> FALSE]
    ELSE IF create_task(compile_async_def(task_body)) = "TypeError"
    THEN [status |-> 500, task |-> FALSE]
    ELSE [status |-> 200, task |-> TRUE]

\* A request that was not made yet; progress is Project.progress of a new
\* project
NoRequest ==
    [pc |-> "idle", project_found |-> FALSE, execution_type |-> "none",
     failing |-> {}, status |-> 0, events |-> <<>>, stages |-> <<>>,
     progress |-> 0, agent_logs |-> <<>>, execution_status |-> "none"]

WInit ==
    wreq = [r \in WRequests |-> NoRequest]

\* POST /projects/{id}/execute by an authenticated caller.  No background
\* task is created, so nothing is emitted, no stage runs and no record is
\* written.
ExecuteWorkflow(r, project_found, execution_type, failing) ==
    /\ wreq[r].pc = "idle"
    /\ LET res == execute_workflow(project_found, execution_type)
       IN /\ ~res.task
          /\ wreq' = [wreq EXCEPT ![r] =
                [@ EXCEPT !.pc = "done",
                          !.project_found = project_found,
                          !.execution_type = execution_type,
                          !.failing = failing,
                          !.status = res.status]]
    /\ UNCHANGED nonWorkflow

WNext ==
    \E r \in WRequests, project_found \in BOOLEAN,
       execution_type \in ExecutionTypeArgs, failing \in FailingStages :
        ExecuteWorkflow(r, project_found, execution_type, failing)

\* ---------------------------------------------------------------------------
\* Claims about the workflow driver
\* ---------------------------------------------------------------------------

\* An answered request for a full execution of a project of the caller
FullRun(r) ==
    /\ wreq[r].pc = "done"
    /\ wreq[r].project_found
    /\ wreq[r].execution_type = "full"

\* The event types of a full execution without a failure, in order
ExpectedEvents ==
    <<"execution_start",
      "stage_start", "agent_message", "progress_update",
      "stage_start", "agent_message", "progress_update",
      "stage_start", "agent_message", "progress_update",
      "stage_start", "agent_message", "progress_update",
      "execution_complete">>

\* C22: for a full execution in which every generate call succeeds, the
\* events of the run are, in this order, execution_start, then per stage a
\* stage_start, an agent_message and a progress_update, then
\* execution_complete; each carries the execution_id and the project_id.
C22_FullExecutionEvents ==
    \A r \in WRequests :
        (FullRun(r) /\ wreq[r].failing = {}) =>
            /\ [i \in DOMAIN wreq[r].events |-> wreq[r].events[i].type] =
                  ExpectedEvents
            /\ \A i \in DOMAIN wreq[r].events :
                  /\ wreq[r].events[i].execution_id
                  /\ wreq[r].events[i].project_id

\* C23: within one run the stages execute in the order product_manager,
\* architect, engineer, qa_engineer, each once, and Project.progress has
\* been advanced through 25, 50, 75 and 90 to 100 at completion.
C23_StagesInOrderProgressTo100 ==
    \A r \in WRequests :
        (FullRun(r) /\ wreq[r].failing = {}) =>
            /\ wreq[r].stages = Stages
            /\ wreq[r].progress = 100

\* C24: a failure in one stage is logged into agent_logs, the remaining
\* stages still run in order and the execution does not become failed.
C24_StageFailureContinues ==
    \A r \in WRequests :
        (FullRun(r) /\ wreq[r].failing # {}) =>
            /\ \A st \in wreq[r].failing :
                  \E i \in DOMAIN wreq[r].agent_logs :
                      /\ wreq[r].agent_logs[i].agent = st
                      /\ wreq[r].agent_logs[i].level = "error"
            /\ wreq[r].stages = Stages
            /\ wreq[r].execution_status # "failed"

\* ===========================================================================
\* WORKSPACE FILES  (backend/app/metagpt_integration/file_handler.py,
\*                   backend/app/websocket/message_handler.py)
\* ===========================================================================

\* What the operations on workspace files leave alone
nonFiles ==
    <<qvars, bvars, avars, rvars, cvars, evars, gvars, wvars, kvars, svars,
      lvars, dvars, tvars>>

\* A path is the sequence of its characters. The file_path arguments of the
\* model are all the strings of up to MaxPathLen of these characters
PathChars == {"/", ".", "a"}

RECURSIVE StringsUpTo(_)
StringsUpTo(n) ==
    IF n = 0 THEN {<<>>}
    ELSE LET S == StringsUpTo(n - 1)
         IN  S \cup {Append(s, c) : s \in {x \in S : Len(x) = n - 1},
                                    c \in PathChars}

FilePaths == StringsUpTo(MaxPathLen)

\* settings.metagpt_workspace, an absolute directory
workspace_root == <<"/", "w">>

\* str(project_id) of the project of the model
project_id == <<"a">>

\* str.startswith
startswith(s, prefix) ==
    /\ Len(prefix) <= Len(s)
    /\ SubSeq(s, 1, Len(prefix)) = prefix

\* ".." in file_path: the substring test of Python
contains_dotdot(p) ==
    \E i \in 1..(Len(p) - 1) : p[i] = "." /\ p[i + 1] = "."

\* posixpath.join of two paths
os_path_join(a, b) ==
    IF startswith(b, <<"/">>) THEN b
    ELSE IF a = <<>> \/ a[Len(a)] = "/" THEN a \o b
    ELSE a \o <<"/">> \o b

\* FileHandler.get_workspace_path
get_workspace_path(pid) == os_path_join(workspace_root, pid)

\* str.split("/"): the components of a path, empty ones included
RECURSIVE split(_)
split(s) ==
    IF \A i \in 1..Len(s) : s[i] # "/" THEN <<s>>
    ELSE LET k == CHOOSE i \in 1..Len(s) :
                      /\ s[i] = "/"
                      /\ \A j \in 1..(i - 1) : s[j] # "/"
         IN  <<SubSeq(s, 1, k - 1)>> \o split(SubSeq(s, k + 1, Len(s)))

\* The loop of posixpath.normpath over the components of an absolute path:
\* "" and "." are dropped, ".." drops the component before it, if any
RECURSIVE norm_comps(_, _)
norm_comps(comps, new_comps) ==
    IF comps = <<>> THEN new_comps
    ELSE LET comp == Head(comps)
         IN  IF comp = <<>> \/ comp = <<".">>
             THEN norm_comps(Tail(comps), new_comps)
             ELSE IF comp # <<".", ".">>
             THEN norm_comps(Tail(comps), Append(new_comps, comp))
             ELSE IF new_comps # <<>>
             THEN norm_comps(Tail(comps),
                             SubSeq(new_comps, 1, Len(new_comps) - 1))
             ELSE norm_comps(Tail(comps), new_comps)

\* "/".join(comps)
RECURSIVE sep_join(_)
sep_join(comps) ==
    IF comps = <<>> THEN <<>>
    ELSE IF Len(comps) = 1 THEN comps[1]
    ELSE comps[1] \o <<"/">> \o sep_join(Tail(comps))

\* posixpath.normpath of an absolute path: exactly two leading slashes are
\* kept, any other number of them is one
initial_slashes(path) ==
    IF startswith(path, <<"/", "/">>) /\ ~startswith(path, <<"/", "/", "/">>)
    THEN <<"/", "/">>
    ELSE <<"/">>

\* os.path.abspath of an absolute path: lexical, links are not followed
abspath(path) ==
    initial_slashes(path) \o sep_join(norm_comps(split(path), <<>>))

\* The directory of the project and what lies below it
Inside(full) ==
    LET ws == abspath(get_workspace_path(project_id))
    IN  full = ws \/ startswith(full, ws \o <<"/">>)

\* The check the file operations share, without the test for "..": the
\* prefix test alone
path_check_prefix_only(p) ==
    IF startswith(p, <<"/">>) THEN "ValueError"
    ELSE LET workspace_path == abspath(get_workspace_path(project_id))
             full_path == abspath(os_path_join(
                              get_workspace_path(project_id), p))
         IN  IF ~startswith(full_path, workspace_path) THEN "ValueError"
             ELSE "ok"

\* The check at the head of write_file, read_file, append_file, delete_file,
\* list_files, list_directories and create_directory
path_check(p) ==
    IF startswith(p, <<"/">>) \/ contains_dotdot(p) THEN "ValueError"
    ELSE path_check_prefix_only(p)

\* What an operation has done: how it ended and the paths it handed to the
\* operating system (exists, isfile, open, stat)
Done(op, p, outcome, io) ==
    [op |-> op, path |-> p, outcome |-> outcome, io |-> io]

\* FileHandler.read_file; found: os.path.exists(full_path)
read_file(p, found) ==
    LET full_path == abspath(os_path_join(get_workspace_path(project_id), p))
    IN  IF path_check(p) = "ValueError"
        THEN Done("read_file", p, "ValueError", {})
        ELSE IF ~found
        THEN Done("read_file", p, "FileNotFoundError", {full_path})
        ELSE Done("read_file", p, "returned", {full_path})

\* FileHandler.file_exists; found: os.path.isfile(full_path)
file_exists(p, found) ==
    LET full_path == os_path_join(get_workspace_path(project_id), p)
    IN  Done("file_exists", p, "returned", {abspath(full_path)})

\* FileHandler.get_file_info; found: os.path.exists(full_path)
get_file_info(p, found) ==
    LET full_path == os_path_join(get_workspace_path(project_id), p)
    IN  IF ~found
        THEN Done("get_file_info", p, "FileNotFoundError",
                  {abspath(full_path)})
        ELSE Done("get_file_info", p, "returned", {abspath(full_path)})

\* MessageHandler._handle_get_file for a project the user owns: read_file,
\* then get_file_info of the same path; an exception of either ends the
\* handler with a response of success False
handle_get_file(p, found) ==
    IF p = <<>> THEN Done("get_file", p, "Missing", {})
    ELSE LET content == read_file(p, found)
             file_info == get_file_info(p, found)
         IN  IF content.outcome # "returned"
             THEN Done("get_file", p, content.outcome, content.io)
             ELSE Done("get_file", p, file_info.outcome,
                       content.io \cup file_info.io)

FileOps == {"read_file", "file_exists", "get_file_info", "get_file"}

NoFileOp == Done("none", <<>>, "none", {})

FInit ==
    fop = NoFileOp

\* What a call does, by the operation called
file_operation(op, p, found) ==
    CASE op = "read_file" -> read_file(p, found)
      [] op = "file_exists" -> file_exists(p, found)
      [] op = "get_file_info" -> get_file_info(p, found)
      [] op = "get_file" -> handle_get_file(p, found)

\* One call of an operation of the file handler, or one get_file message;
\* the caller makes one call at a time
FileOperation ==
    /\ fop = NoFileOp
    /\ \E op \in FileOps, p \in FilePaths, found \in BOOLEAN :
           fop' = file_operation(op, p, found)
    /\ UNCHANGED nonFiles

\* The caller goes on to its next call
FileOperationReturn ==
    /\ fop # NoFileOp
    /\ fop' = NoFileOp
    /\ UNCHANGED nonFiles

FNext ==
    \/ FileOperation
    \/ FileOperationReturn

\* C28: an operation on the files of a project that does not reject its
\* file_path with a validation error works on the directory of the project
\* or below it: every path it hands to the operating system is, once
\* made canonical, the workspace of the project or has it as a prefix; a
\* file_path that leads out of the workspace (such as "../../a" or an
\* absolute path) is rejected with ValueError before any file is touched.
C28_PathStaysInsideWorkspace ==
    /\ fop.outcome # "ValueError" => \A full \in fop.io : Inside(full)
    /\ fop.op # "none"
       /\ ~Inside(abspath(os_path_join(get_workspace_path(project_id),
                                       fop.path)))
       => fop.outcome = "ValueError" /\ fop.io = {}

\* ===========================================================================
\* MESSAGE ROUTER  (backend/app/websocket/message_handler.py,
\*                  backend/app/api/v1/websocket.py websocket_endpoint)
\* ===========================================================================

\* What the steps of a session leave alone
nonSession ==
    <<qvars, bvars, avars, rvars, cvars, evars, gvars, wvars, kvars, fvars,
      lvars, dvars, tvars>>

\* class MessageType
MessageTypes ==
    {"start_agent", "cancel_execution", "pause_execution",
     "resume_execution", "get_project", "update_project",
     "get_project_status", "get_execution", "get_execution_logs",
     "get_file", "list_files", "get_agent_config", "update_agent_config",
     "subscribe", "unsubscribe", "ping", "heartbeat"}

\* The "type" of a frame: a member of MessageType, a string that is none,
\* or nothing (the key is absent, null or empty)
FrameTypes == MessageTypes \cup {"bogus", "missing"}

\* The frames a client sends: a JSON object with its type, the shape of its
\* payload and what the services do when the handler calls them; text that is
\* no JSON; JSON that is no object; or the client has gone
Frames ==
    [kind : {"object"}, type : FrameTypes, payload : {"dict", "not_dict"},
     service : {"ok", "refuses", "raises"}]
    \cup [kind : {"invalid_json", "not_object", "client_gone"},
          type : {"missing"}, payload : {"dict"}, service : {"ok"}]

\* MessageResponse.to_dict
WrapperKeys == {"success", "message_type", "data", "error", "timestamp"}

MessageResponse(success, message_type, error) ==
    [raised |-> FALSE, keys |-> WrapperKeys, success |-> success,
     message_type |-> message_type, error |-> error]

\* An exception that leaves a call
Raised(exc) ==
    [raised |-> TRUE, keys |-> {}, success |-> FALSE,
     message_type |-> "missing", error |-> exc]

\* The handlers of the table: _handle_ping and _handle_heartbeat do not look
\* at the payload; every other handler runs in its own try, reads the payload
\* with payload.get and answers an exception with success False
handler(msg_type, frame) ==
    IF msg_type \in {"ping", "heartbeat"}
    THEN MessageResponse(TRUE, msg_type, "None")
    ELSE IF frame.payload = "not_dict"
    THEN MessageResponse(FALSE, msg_type, "AttributeError")
    ELSE IF frame.service = "raises"
    THEN MessageResponse(FALSE, msg_type, "Exception")
    ELSE IF frame.service = "refuses"
    THEN MessageResponse(FALSE, msg_type, "refused")
    ELSE MessageResponse(TRUE, msg_type, "None")

\* MessageHandler.handle without its two try statements
handle_unguarded(message_type, frame) ==
    IF message_type \notin MessageTypes THEN Raised("ValueError")
    ELSE handler(message_type, frame)

\* MessageHandler.handle
handle(message_type, frame) ==
    IF message_type \notin MessageTypes
    THEN MessageResponse(FALSE, message_type, "Unknown message type")
    ELSE LET response == handler(message_type, frame)
         IN  IF response.raised
             THEN MessageResponse(FALSE, message_type, "Internal error")
             ELSE response

\* A reply of websocket_endpoint itself: success and error only; via tells
\* whether msg_handler.handle was called for the frame
EndpointError(via, error) ==
    [via |-> via, keys |-> {"success", "error"}, success |-> FALSE,
     message_type |-> "missing", error |-> error, frame |-> "none"]

\* One turn of the receive loop of websocket_endpoint for a frame of a client
\* that is still there
reply_to(frame) ==
    IF frame.kind = "invalid_json"
    THEN EndpointError("endpoint", "Invalid JSON format")
    ELSE IF frame.kind = "not_object"
    THEN EndpointError("endpoint", "Internal error")
    ELSE IF frame.type = "missing"
    THEN EndpointError("endpoint", "Missing message type")
    ELSE LET response == handle(frame.type, frame)
         IN  IF response.raised
             THEN EndpointError("router", "Internal error")
             ELSE [via |-> "router", keys |-> response.keys,
                   success |-> response.success,
                   message_type |-> response.message_type,
                   error |-> response.error,
                   frame |-> IF frame.type = "bogus" THEN "unknown type"
                             ELSE IF frame.payload = "not_dict"
                                     /\ frame.type \notin {"ping", "heartbeat"}
                             THEN "malformed payload"
                             ELSE IF frame.service = "raises"
                                     /\ frame.type \notin {"ping", "heartbeat"}
                             THEN "handler raises"
                             ELSE "plain"]

NoReply ==
    [via |-> "none", keys |-> {}, success |-> FALSE,
     message_type |-> "missing", error |-> "None", frame |-> "none"]

\* The session after connect and connection_ack
SInit ==
    /\ sloop = "receive"
    /\ sregistered = TRUE
    /\ slast = NoReply
    /\ sfailed = {}
    /\ sframes = 0

\* websocket_endpoint: receive_json returns a frame, the frame is answered
\* and the loop goes on
ReceiveFrame ==
    /\ sloop = "receive"
    /\ sframes < MaxFrames
    /\ \E frame \in Frames :
          /\ frame.kind # "client_gone"
          /\ slast' = reply_to(frame)
    /\ sfailed' = IF slast'.via = "router" /\ ~slast'.success
                  THEN sfailed \cup {slast'.frame}
                  ELSE sfailed
    /\ sframes' = sframes + 1
    /\ UNCHANGED <<sloop, sregistered>>
    /\ UNCHANGED nonSession

\* websocket_endpoint: the client has gone. receive_json raises
\* WebSocketDisconnect, which the except Exception of the loop takes; its
\* send_json raises on the closed socket, and the handlers around the loop
\* call conn_manager.disconnect
ClientGone ==
    /\ sloop = "receive"
    /\ sloop' = "returned"
    /\ sregistered' = FALSE
    /\ UNCHANGED <<slast, sfailed, sframes>>
    /\ UNCHANGED nonSession

SNext ==
    \/ ReceiveFrame
    \/ ClientGone

nonLifecycle ==
    <<qvars, bvars, avars, rvars, cvars, evars, gvars, wvars, kvars, fvars,
      svars, dvars, tvars>>

LifeConns == 1..MaxSessions

\* _streaming_handler is None / _task_queue is None
NoBus == [created |-> FALSE, running |-> FALSE, buffered |-> 0]
NoQueue == [created |-> FALSE, redis_open |-> FALSE]

\* streaming.py close_streaming_handler: StreamingHandler.stop flushes the
\* buffer once and ends the processor task; the global is set to None
close_streaming_handler(bus) ==
    IF bus.created THEN NoBus ELSE bus

\* task_queue.py close_task_queue: TaskQueue.disconnect closes the redis
\* connection; the global is set to None
close_task_queue(tq) ==
    IF tq.created THEN NoQueue ELSE tq

\* The application after the startup part of lifespan: the blacklist store is
\* connected, the tables exist, and the streaming handler and the task queue
\* are created by their first user
LInit ==
    /\ lphase = "serving"
    /\ lconns = {}
    /\ lbus = NoBus
    /\ lqueue = NoQueue
    /\ lsteps = <<>>

\* websocket_endpoint: a session is registered; get_streaming_handler
\* creates and starts the streaming handler if there is none
LifeConnect(c) ==
    /\ lphase = "serving"
    /\ c \notin lconns
    /\ lconns' = lconns \cup {c}
    /\ lbus' = IF lbus.created THEN lbus
               ELSE [created |-> TRUE, running |-> TRUE, buffered |-> 0]
    /\ UNCHANGED <<lphase, lqueue, lsteps>>
    /\ UNCHANGED nonLifecycle

\* StreamingHandler.emit_event, seen from here: one more event in the buffer
LifeEmit ==
    /\ lphase = "serving"
    /\ lbus.running
    /\ lbus.buffered < MaxBuffered
    /\ lbus' = [lbus EXCEPT !.buffered = @ + 1]
    /\ UNCHANGED <<lphase, lconns, lqueue, lsteps>>
    /\ UNCHANGED nonLifecycle

\* The processor task of the streaming handler flushes the buffer
LifeFlush ==
    /\ lphase = "serving"
    /\ lbus.running
    /\ lbus.buffered > 0
    /\ lbus' = [lbus EXCEPT !.buffered = 0]
    /\ UNCHANGED <<lphase, lconns, lqueue, lsteps>>
    /\ UNCHANGED nonLifecycle

\* get_task_queue: the first user creates and connects the task queue
LifeGetTaskQueue ==
    /\ lphase = "serving"
    /\ ~lqueue.created
    /\ lqueue' = [created |-> TRUE, redis_open |-> TRUE]
    /\ UNCHANGED <<lphase, lconns, lbus, lsteps>>
    /\ UNCHANGED nonLifecycle

\* The server stops taking requests and resumes lifespan after its yield
LifeStopAdmission ==
    /\ lphase = "serving"
    /\ lphase' = "stopping"
    /\ lsteps' = Append(lsteps, "admission")
    /\ UNCHANGED <<lconns, lbus, lqueue>>
    /\ UNCHANGED nonLifecycle

\* lifespan: await connection_manager.disconnect_all()
LifeDisconnectAll ==
    /\ lphase = "stopping"
    /\ lconns' = {}
    /\ lphase' = "sessions closed"
    /\ lsteps' = Append(lsteps, "sessions")
    /\ UNCHANGED <<lbus, lqueue>>
    /\ UNCHANGED nonLifecycle

\* lifespan: await token_blacklist.disconnect(), its last statement
LifeBlacklistDisconnect ==
    /\ lphase = "sessions closed"
    /\ lphase' = "down"
    /\ lsteps' = Append(lsteps, "blacklist")
    /\ UNCHANGED <<lconns, lbus, lqueue>>
    /\ UNCHANGED nonLifecycle

LNext ==
    \/ \E c \in LifeConns : LifeConnect(c)
    \/ LifeEmit
    \/ LifeFlush
    \/ LifeGetTaskQueue
    \/ LifeStopAdmission
    \/ LifeDisconnectAll
    \/ LifeBlacklistDisconnect

\* The order of the shutdown
ShutdownOrder ==
    <<"admission", "sessions", "event_bus", "queue", "blacklist",
      "persistence">>

\* C30: the shutdown runs its steps in the order admission, sessions, event
\* bus, queue, blacklist store, persistence: at any moment the steps that
\* have run are the first steps of that order, and once lifespan has
\* returned all six have run, no session is registered, the streaming
\* handler is stopped with its buffer flushed and the task queue is closed.
C30_ShutdownOrder ==
    /\ Len(lsteps) <= Len(ShutdownOrder)
    /\ lsteps = SubSeq(ShutdownOrder, 1, Len(lsteps))
    /\ lphase = "down" =>
           /\ lsteps = ShutdownOrder
           /\ lconns = {}
           /\ lbus = close_streaming_handler(lbus)
           /\ lqueue = close_task_queue(lqueue)

\* ===========================================================================
\* WORKFLOW DRIVER, STATEMENT BY STATEMENT
\*   (backend/app/metagpt_integration/agent_manager.py run_workflow,
\*    backend/app/websocket/message_handler.py _handle_cancel_execution)
\*
\* The module of run_workflow is rejected by the compiler (see the workflow
\* driver above), so no build runs these statements.  Here they are taken
\* in the order of the text, each `yield from await self._run_..._stage` as
\* the run of that stage, to see what the text of the driver does with a
\* cancel that arrives between two of its awaits.
\* ===========================================================================

\* What the statements of the driver leave alone
nonDriver ==
    <<qvars, bvars, avars, rvars, cvars, evars, gvars, wvars, kvars, fvars,
      svars, lvars, tvars>>

DriverRuns == 1..MaxRuns

NotCancelled == -1

NoRun ==
    [pc |-> "idle", status |-> "none", stages |-> <<>>,
     cancelled_at |-> NotCancelled]

DInit ==
    drun = [r \in DriverRuns |-> NoRun]

\* run_workflow: create_execution, initialize_agents and
\* update_execution_status(RUNNING), which sets the status and commits
DriverStart(r) ==
    /\ drun[r].pc = "idle"
    /\ drun' = [drun EXCEPT ![r] =
                   [@ EXCEPT !.pc = "stages", !.status = "running"]]
    /\ UNCHANGED nonDriver

\* run_workflow: the next of the four stage statements. Nothing in
\* run_workflow or in the stage methods reads the status of the execution
DriverStage(r) ==
    /\ drun[r].pc = "stages"
    /\ Len(drun[r].stages) < Len(Stages)
    /\ drun' = [drun EXCEPT ![r] =
                   [@ EXCEPT !.stages =
                         Append(@, Stages[Len(@) + 1])]]
    /\ UNCHANGED nonDriver

\* run_workflow after the last stage: _update_project_progress(100.0) and
\* update_execution_status(COMPLETED), which sets the status and commits
DriverComplete(r) ==
    /\ drun[r].pc = "stages"
    /\ Len(drun[r].stages) = Len(Stages)
    /\ drun' = [drun EXCEPT ![r] =
                   [@ EXCEPT !.pc = "done", !.status = "completed"]]
    /\ UNCHANGED nonDriver

\* MessageHandler._handle_cancel_execution for the execution of the run, by
\* its user: execution.status = CANCELLED and commit, whatever the status was
DriverCancelMessage(r) ==
    /\ drun[r].status # "none"
    /\ drun[r].cancelled_at = NotCancelled
    /\ drun' = [drun EXCEPT ![r] =
                   [@ EXCEPT !.status = "cancelled",
                             !.cancelled_at = Len(drun[r].stages)]]
    /\ UNCHANGED nonDriver

DNext ==
    \E r \in DriverRuns :
        \/ DriverStart(r)
        \/ DriverStage(r)
        \/ DriverComplete(r)
        \/ DriverCancelMessage(r)

\* C31: when an execution is marked cancelled while its workflow is running,
\* the driver starts no further stage after the next stage boundary (at most
\* the stage that comes next is still started) and the status of the
\* execution is never set to completed afterwards.
C31_CancelObservedAtStageBoundary ==
    \A r \in DriverRuns :
        (drun[r].cancelled_at # NotCancelled
         /\ drun[r].cancelled_at < Len(Stages)) =>
            /\ Len(drun[r].stages) <= drun[r].cancelled_at + 1
            /\ drun[r].status = "cancelled"

\* ===========================================================================
\* EVENT BUS, TIMING OF THE FLUSH
\*   (backend/app/metagpt_integration/streaming.py _process_events)
\*
\* One emitter and a processor task that is never kept waiting: an emitted
\* event is taken from the queue and appended in the tick it is emitted in.
\* ===========================================================================

\* What the steps of the timed processor leave alone
nonTimed ==
    <<qvars, bvars, avars, rvars, cvars, evars, gvars, wvars, kvars, fvars,
      svars, lvars, dvars>>

TInit ==
    /\ tnow = 0
    /\ twait = 0
    /\ tbuffer = <<>>
    /\ tworst = 0

\* The age of the oldest event of a buffer
oldest_age(buffer, now) ==
    IF buffer = <<>> THEN 0 ELSE now - buffer[1]

Max2(a, b) == IF a >= b THEN a ELSE b

\* _process_events: wait_for(event_queue.get(), timeout) returns an event
\* before its timeout; the event is appended, the buffer is flushed if it is
\* full, and the loop starts the next wait_for with a new timeout
TimedGet ==
    /\ tnow - twait < BatchTimeout
    /\ LET appended == Append(tbuffer, tnow)
       IN  IF Len(appended) >= TimedBufferSize
           THEN /\ tbuffer' = <<>>
                /\ tworst' = Max2(tworst, oldest_age(appended, tnow))
           ELSE /\ tbuffer' = appended
                /\ UNCHANGED tworst
    /\ twait' = tnow
    /\ UNCHANGED tnow
    /\ UNCHANGED nonTimed

\* Time passes while the wait_for has not run out
TimedTick ==
    /\ tnow < MaxTime
    /\ tnow - twait < BatchTimeout
    /\ tnow' = tnow + 1
    /\ UNCHANGED <<twait, tbuffer, tworst>>
    /\ UNCHANGED nonTimed

\* _process_events: wait_for raises TimeoutError; the buffer is flushed if
\* there is something in it, and the loop starts the next wait_for
TimedTimeout ==
    /\ tnow - twait = BatchTimeout
    /\ tbuffer' = <<>>
    /\ tworst' = Max2(tworst, oldest_age(tbuffer, tnow))
    /\ twait' = tnow
    /\ UNCHANGED tnow
    /\ UNCHANGED nonTimed

TNext ==
    \/ TimedGet
    \/ TimedTick
    \/ TimedTimeout

\* C32: the buffer is flushed when it reaches buffer_size events or when
\* batch_timeout has passed since the first event now in it was added: no
\* event is in the buffer for longer than batch_timeout, neither while it
\* waits nor when its flush begins.
C32_FlushWithinBatchTimeout ==
    /\ oldest_age(tbuffer, tnow) <= BatchTimeout
    /\ tworst <= BatchTimeout

vars ==
    <<qvars, bvars, avars, rvars, cvars, evars, gvars, wvars, kvars, fvars,
      svars, lvars, dvars, tvars>>

Init ==
    /\ QInit /\ BInit /\ AInit /\ RInit /\ CInit /\ EInit /\ GInit
    /\ FInit /\ WInit /\ KInit /\ SInit /\ LInit /\ DInit /\ TInit

SpecQueue == Init /\ [][QNext]_vars

SpecQueueCancel == Init /\ [][QCancelNext]_vars

SpecQueueOrder == Init /\ [][QOrderNext]_vars

SpecQueueSingle == Init /\ [][QSingleNext]_vars

\* The worker task is scheduled as long as it has a step to take: its awaits
\* return (a handler call is bounded by wait_for, a sleep by its length)
SpecQueueCrash == Init /\ [][QCrashNext]_vars /\ WF_vars(WorkerStep(1))

SpecBus == Init /\ [][BNext]_vars

SpecBusFaulty == Init /\ [][BFaultyNext]_vars

SpecBusProject == Init /\ [][BProjectNext]_vars

SpecAuth == Init /\ [][ANext]_vars

SpecBlacklist == Init /\ [][ABlacklistNext]_vars

SpecRate == Init /\ [][RNext]_vars
SpecRateSweep == Init /\ [][RSweepNext]_vars

SpecRegistry == Init /\ [][CNext]_vars

SpecExec == Init /\ [][ENext]_vars

SpecAgentConfig == Init /\ [][GNext]_vars

SpecWorkflow == Init /\ [][WNext]_vars

SpecBackoff == Init /\ [][KNext]_vars

SpecFiles == Init /\ [][FNext]_vars

SpecSession == Init /\ [][SNext]_vars

SpecLifecycle == Init /\ [][LNext]_vars

SpecDriver == Init /\ [][DNext]_vars

SpecBusTimed == Init /\ [][TNext]_vars
====
